---- MODULE Spec2Model ----
(***************************************************************************)
(* The alert state machine of radio-watchdog (src/src/utils/alertmanager.rs)*)
(* with its delivery loop and the transport it sends to                     *)
(* (src/src/utils/slack.rs).                                                *)
(*                                                                         *)
(* Time is counted in periods of the delivery loop: one unit is the 30 s   *)
(* the loop sleeps between two ticks.  Every Utc::now() the code reads is   *)
(* the variable now; timers expire on time (a sleeping loop runs before    *)
(* the clock moves past its wake-up time) and one pass of the loop takes    *)
(* no time at this resolution.                                              *)
(*                                                                         *)
(* With it, the comparator that reports to it                              *)
(* (src/src/utils/comparator.rs) and one stream from its source process to *)
(* its fingerprint buffer (src/src/utils/commandprocessor.rs,              *)
(* src/src/utils/audiostream.rs, src/src/utils/volumedetect.rs,            *)
(* src/src/utils/audiorouter.rs), and the start of the program: the local  *)
(* tuner, the connection to it and the streams of the configuration        *)
(* (src/src/main.rs, src/src/utils/sdr.rs, src/src/utils/nrsc.rs).          *)
(***************************************************************************)
EXTENDS Integers, Sequences, FiniteSets, TLC

VARIABLES
    now,      \* the wall clock, Utc::now(), in loop periods
    alerts,   \* AlertManager.alerts: the HashMap from alert id to Alert
    pc,       \* position of the task spawned by start_alert_loop
    wake,     \* when that task's sleep ends
    sent,     \* the calls of SlackMessageSender::send made by the last tick
    hist,     \* history: every issue handed to the transport so far
    episode,  \* history: when each alert's latest failure began and ended
    results,      \* StreamComparator.comparison_results, the published vector
    new_results,  \* the local vector a comparator cycle builds
    cpc,          \* position of the task spawned by start_comparison_loop
    ri,           \* index of the result the alert loop of the cycle is at
    snapshot,     \* the clone a reader (status page, metrics) took last
    cycle,        \* number of comparator cycles completed
    complete,     \* history: the complete vector of every cycle
    read_at,      \* history: the cycle count when snapshot was taken
    short,        \* history: alert ids of the pairs found short this cycle
    heard,        \* history: what the matches of this cycle gave
    before,       \* history: the alert map when this cycle began
    child,          \* the children spawned for the stream's command, by spawn order
    spawned,        \* how many children CommandHolder::spawn has started
    written,        \* history: every block the children wrote, in the order written
    bus,            \* every chunk sent on CommandHolder.output, oldest first
    cursor,         \* per consumer, how many chunks of the bus it has taken or skipped
    got,            \* history: per consumer, the chunks recv has returned to it
    gap,            \* history: the consumers that have received Lagged
    cmd_health,     \* CommandHolder.health
    idle,           \* sleeps of the watchdog since last_message was stamped
    restart_count,  \* CommandHolder.restart_count
    wpc,            \* position of the task spawned by start_watchdog
    current_health, \* the health that task read
    spc,            \* position of the supervisor: asleep or inside respawn
    audio_health,   \* AudioStream.health
    apc,            \* position of the thread spawned by AudioStream::new
    fingerprinter,  \* how many items the Fingerprinter has produced
    output,         \* AudioStream.output, the rolling fingerprint buffer
    vpc,            \* position of the fill task of VolumeDetector::new
    buffer,         \* VolumeDetector.buffer, in chunks
    input,          \* CommandHolder.input: whether the upstream Receiver is still held
    feeder,         \* the child whose stdin the feeder task writes to, 0 if none
    volume_metrics, \* AudioRouter.volume_metrics: stream name to max_volume in dB
    ids,            \* history: alert id to the conditions it was computed for
    mpc,            \* position of main()
    config,         \* the Config main() has read
    process,        \* SdrManager.process: whether a Child is held
    tuner,          \* the rtl_tcp process that spawn launched
    port,           \* whether the tuner's host:port accepts a connection
    attempt,        \* the probes SdrManager::spawn has made
    connected,      \* whether its last probe connected
    spawn_result,   \* what SdrManager::spawn returned
    launched,       \* history: how many rtl_tcp children were launched
    retries,        \* retries of RtlTcpConnection::connect
    attempts,       \* history: how many times connect has tried the port
    connect_result, \* what RtlTcpConnection::connect returned
    nth,            \* index of the stream main() is at
    added,          \* the streams given to AudioRouter::add_stream
    started         \* the loops main() has started

alertVars == <<now, alerts, pc, wake, sent, hist, episode>>

comparatorVars ==
    <<results, new_results, cpc, ri, snapshot, cycle, complete, read_at, short, heard,
      before>>

sourceVars ==
    <<child, spawned, written, bus, cursor, got, gap, cmd_health, idle, restart_count,
      wpc, current_health, spc, audio_health, apc, fingerprinter, output, vpc, buffer,
      input, feeder>>

routerVars == <<volume_metrics, ids>>

startVars ==
    <<mpc, config, process, tuner, port, attempt, connected, spawn_result, launched,
      retries, attempts, connect_result, nth, added, started>>

vars == <<alertVars, comparatorVars, sourceVars, routerVars, startVars>>

----------------------------------------------------------------------------
(* Bounds of the model. *)

MaxTime == 3

MaxTimeLong == 43

MaxTimeBuckets == 23

MaxTimePairs == 26

MaxOnset == 1

MaxHist == 6

MaxCycles == 2

MaxSpawns == 2

MaxWrites == 3

MaxItems == 3

MaxRestarts == 2

MaxStreams == 2

MaxNoted == 2

(* The alert ids and messages the callers pass: the comparator's          *)
(* "<stream1>_<stream2>" and the silence probe's "<stream>_silence".        *)
AlertIds == {"HD1-Tower_HD2-Tower", "HD1-Tower_silence"}

Messages == {"m1", "m2"}

----------------------------------------------------------------------------
(* Program constants, in loop periods of 30 s. *)

LoopPeriod == 1

ReminderInterval == 20

GracePeriod == 2

(* Option::None of failing_since and last_sent_update. *)
NoTime == -1

AlertStates ==
    {"NewFailing", "FailingAlertSent", "FailingReminderNeeded", "NewPassing", "Passing"}

PendingAggregation == {"None", "NewFailure", "Cleared", "Reminder"}

----------------------------------------------------------------------------
(* Alert *)

AlertNew(message) ==
    [message |-> message,
     failing_since |-> NoTime,
     last_sent_update |-> NoTime,
     pending_aggregation |-> "None"]

(* mark_failing stamping failing_since on every call.                       *)
mark_failing_restamp(a, message, t) ==
    [a EXCEPT !.message = message, !.failing_since = t]

mark_failing(a, message, t) ==
    [a EXCEPT !.message = message,
              !.failing_since = IF a.failing_since = NoTime THEN t ELSE @]

mark_passing(a) ==
    [a EXCEPT !.failing_since = NoTime]

is_failing(a) == a.failing_since # NoTime

(* alert_state with the reminder due only after more than the interval. *)
alert_state_late(a, t) ==
    IF a.failing_since # NoTime
    THEN IF a.last_sent_update = NoTime THEN "NewFailing"
         ELSE IF t - a.last_sent_update > ReminderInterval THEN "FailingReminderNeeded"
         ELSE "FailingAlertSent"
    ELSE IF a.last_sent_update # NoTime THEN "NewPassing" ELSE "Passing"

(* The match of alert_state, arm by arm in the order of the source. *)
alert_state(a, t) ==
    CASE a.failing_since # NoTime /\ a.last_sent_update = NoTime -> "NewFailing"
      [] a.failing_since # NoTime /\ a.last_sent_update # NoTime
            /\ t - a.last_sent_update >= ReminderInterval -> "FailingReminderNeeded"
      [] a.failing_since # NoTime /\ a.last_sent_update # NoTime
            /\ ~(t - a.last_sent_update >= ReminderInterval) -> "FailingAlertSent"
      [] a.failing_since = NoTime /\ a.last_sent_update # NoTime -> "NewPassing"
      [] a.failing_since = NoTime /\ a.last_sent_update = NoTime -> "Passing"

(* register_sent keeping last_sent_update when the alert has recovered.     *)
register_sent_keeping(a, t) ==
    LET s == alert_state(a, t) IN
    IF s \in {"NewFailing", "FailingReminderNeeded"}
    THEN [a EXCEPT !.last_sent_update = t]
    ELSE a

(* Alert::register_sent. *)
register_sent(a, t) ==
    LET s == alert_state(a, t) IN
    IF s \in {"NewFailing", "FailingReminderNeeded"}
    THEN [a EXCEPT !.last_sent_update = t]
    ELSE IF s = "NewPassing"
    THEN [a EXCEPT !.last_sent_update = NoTime]
    ELSE a

(* Duration::minutes, in loop periods of 30 s.                              *)
minutes(m) == m * 2

(* AlertManager::new: the two parameters are stored as they are given.      *)
AlertManager_new(reminder_interval_minutes, grace_period_seconds) ==
    [reminder_interval_minutes |-> reminder_interval_minutes,
     grace_period_seconds |-> grace_period_seconds]

(* Reminder intervals a caller may construct the manager with, in minutes. *)
Intervals == {5, 10, 20}

----------------------------------------------------------------------------
(* AlertManager::update_alert, on one Alert: the entry of the map after     *)
(* or_insert_with, then mark_failing / mark_passing and the match on the    *)
(* new state.                                                               *)

(* update_entry that does not mark a recovery as Cleared. *)
update_entry_unmarked(a, is_error, message, t) ==
    LET previous_state == alert_state(a, t)
        marked == IF is_error THEN mark_failing(a, message, t) ELSE mark_passing(a)
        new_state == alert_state(marked, t)
    IN  IF new_state = "NewPassing" /\ previous_state # "NewPassing"
        THEN register_sent(marked, t)
        ELSE marked

(* update_entry marking a new failure for the next tick at once, with no   *)
(* grace period.                                                            *)
update_entry_immediate(a, is_error, message, t) ==
    LET previous_state == alert_state(a, t)
        marked == IF is_error THEN mark_failing(a, message, t) ELSE mark_passing(a)
        new_state == alert_state(marked, t)
    IN  IF new_state = "NewPassing" /\ previous_state # "NewPassing"
        THEN register_sent([marked EXCEPT !.pending_aggregation = "Cleared"], t)
        ELSE IF new_state = "NewFailing" /\ previous_state # "NewFailing"
        THEN [marked EXCEPT !.pending_aggregation = "NewFailure"]
        ELSE marked

(* update_entry resetting the pending mark of an alert that passes without  *)
(* a transition.                                                            *)
update_entry_resetting(a, is_error, message, t) ==
    LET previous_state == alert_state(a, t)
        marked == IF is_error THEN mark_failing(a, message, t) ELSE mark_passing(a)
        new_state == alert_state(marked, t)
    IN  IF new_state = "NewPassing" /\ previous_state # "NewPassing"
        THEN register_sent([marked EXCEPT !.pending_aggregation = "Cleared"], t)
        ELSE IF is_error THEN marked
        ELSE [marked EXCEPT !.pending_aggregation = "None"]

update_entry(a, is_error, message, t) ==
    LET previous_state == alert_state(a, t)
        marked == IF is_error THEN mark_failing(a, message, t) ELSE mark_passing(a)
        new_state == alert_state(marked, t)
    IN  IF new_state = "NewPassing" /\ previous_state # "NewPassing"
        THEN register_sent([marked EXCEPT !.pending_aggregation = "Cleared"], t)
        ELSE marked

update_alert(als, alert_id, is_error, message, t) ==
    LET a == IF alert_id \in DOMAIN als THEN als[alert_id] ELSE AlertNew(message)
    IN  [id \in DOMAIN als \cup {alert_id} |->
            IF id = alert_id THEN update_entry(a, is_error, message, t) ELSE als[id]]

----------------------------------------------------------------------------
(* The iteration orders of the HashMap: any order of its keys. *)

Orders(S) ==
    {o \in [1..Cardinality(S) -> S] : \A i, j \in 1..Cardinality(S) : o[i] = o[j] => i = j}

(* process_alerts marking the reminder without register_sent. *)
process_alerts_unstamped(order, als, t) ==
    [id \in DOMAIN als |->
        IF alert_state(als[id], t) = "FailingReminderNeeded"
        THEN [als[id] EXCEPT !.pending_aggregation = "Reminder"]
        ELSE als[id]]

(* AlertManager::process_alerts: the loop over alerts.iter_mut(). *)
RECURSIVE process_alerts(_, _, _)
process_alerts(order, als, t) ==
    IF order = <<>> THEN als
    ELSE LET id == Head(order)
             a == als[id]
             b == IF alert_state(a, t) = "FailingReminderNeeded"
                  THEN register_sent([a EXCEPT !.pending_aggregation = "Reminder"], t)
                  ELSE a
         IN  process_alerts(Tail(order), [als EXCEPT ![id] = b], t)

(* One issue of a bucket: the message the code pushes, with the id of the   *)
(* alert it was cloned from.                                                *)
Issue(id, a) == [id |-> id, message |-> a.message]

(* AlertManager::process_aggregated_alerts, the loop over                  *)
(* alerts.values_mut() under the write lock: the three buckets and the      *)
(* alerts as it leaves them.                                                *)
RECURSIVE collect(_, _, _, _)
collect(order, acc, t, grace_period) ==
    IF order = <<>> THEN acc
    ELSE LET id == Head(order)
             a == acc.alerts[id]
             cleared == [a EXCEPT !.pending_aggregation = "None"]
             next ==
               CASE a.pending_aggregation = "NewFailure" ->
                      [acc EXCEPT !.new_failures = Append(@, Issue(id, a)),
                                  !.alerts[id] = cleared]
                 [] a.pending_aggregation = "Cleared" ->
                      [acc EXCEPT !.clears = Append(@, Issue(id, a)),
                                  !.alerts[id] = cleared]
                 [] a.pending_aggregation = "Reminder" ->
                      [acc EXCEPT !.reminders = Append(@, Issue(id, a)),
                                  !.alerts[id] = cleared]
                 [] a.pending_aggregation = "None" ->
                      IF alert_state(a, t) = "NewFailing"
                         /\ a.failing_since # NoTime
                         /\ t - a.failing_since >= grace_period
                      THEN [acc EXCEPT !.new_failures = Append(@, Issue(id, a)),
                                       !.alerts[id] = register_sent(cleared, t)]
                      ELSE acc
         IN  collect(Tail(order), next, t, grace_period)

(* The message composed for one bucket and the call of                    *)
(* SlackMessageSender::send on it: the category tag, singular phrasing for *)
(* one issue and a numbered list otherwise; ok is what send returns.        *)
send(category, issues, ok) ==
    [category |-> category,
     numbered |-> Len(issues) # 1,
     issues |-> issues,
     ok |-> ok]

(* sends with one message for every issue of the new failures. *)
sends_each(acc, ok) ==
    [i \in 1..Len(acc.new_failures) |-> send("Warning", <<acc.new_failures[i]>>, ok[1])]
    \o
    (IF acc.clears # <<>> THEN <<send("Success", acc.clears, ok[2])>> ELSE <<>>)
    \o
    (IF acc.reminders # <<>> THEN <<send("Reminder", acc.reminders, ok[3])>> ELSE <<>>)

(* sends with the three buckets chained by else: only the first non-empty   *)
(* bucket is sent.                                                          *)
sends_first(acc, ok) ==
    IF acc.new_failures # <<>> THEN <<send("Warning", acc.new_failures, ok[1])>>
    ELSE IF acc.clears # <<>> THEN <<send("Success", acc.clears, ok[2])>>
    ELSE IF acc.reminders # <<>> THEN <<send("Reminder", acc.reminders, ok[3])>>
    ELSE <<>>

(* The sends after the lock is dropped: one per non-empty bucket, in the   *)
(* order new failures, clears, reminders.                                   *)
sends(acc, ok) ==
    (IF acc.new_failures # <<>> THEN <<send("Warning", acc.new_failures, ok[1])>> ELSE <<>>)
    \o
    (IF acc.clears # <<>> THEN <<send("Success", acc.clears, ok[2])>> ELSE <<>>)
    \o
    (IF acc.reminders # <<>> THEN <<send("Reminder", acc.reminders, ok[3])>> ELSE <<>>)

----------------------------------------------------------------------------
(* The comparator (src/src/utils/comparator.rs).                            *)

(* The channel map of the router: channel -> stream names, in the order     *)
(* add_stream pushed them.                                                  *)
StreamNames == {"HD1-Tower", "HD1-Web", "HD2-Tower"}

ChannelNames == {"Main", "Alt"}

channels ==
    [c \in ChannelNames |->
        IF c = "Main" THEN <<"HD1-Web", "HD1-Tower">> ELSE <<"HD2-Tower">>]

get_channel_streams(channel_name) == channels[channel_name]

StreamsOf(c) == {channels[c][i] : i \in 1..Len(channels[c])}

(* The bytes of a name, which the ordering of String compares.              *)
Bytes(s) ==
    CASE s = "Main" -> <<77, 97, 105, 110>>
      [] s = "Alt" -> <<65, 108, 116>>
      [] s = "HD1-Tower" -> <<72, 68, 49, 45, 84, 111, 119, 101, 114>>
      [] s = "HD1-Web" -> <<72, 68, 49, 45, 87, 101, 98>>
      [] s = "HD2-Tower" -> <<72, 68, 50, 45, 84, 111, 119, 101, 114>>
      [] s = "silence" -> <<115, 105, 108, 101, 110, 99, 101>>
      [] s = "A" -> <<65>>
      [] s = "HD1" -> <<72, 68, 49>>
      [] s = "A-1" -> <<65, 45, 49>>
      [] s = "A-1_A-2" -> <<65, 45, 49, 95, 65, 45, 50>>
      [] s = "A-2_A-3" -> <<65, 45, 50, 95, 65, 45, 51>>
      [] s = "A-3" -> <<65, 45, 51>>

RECURSIVE LexLess(_, _)
LexLess(a, b) ==
    IF a = <<>> THEN b # <<>>
    ELSE IF b = <<>> THEN FALSE
    ELSE IF Head(a) # Head(b) THEN Head(a) < Head(b)
    ELSE LexLess(Tail(a), Tail(b))

(* s < t on Strings.                                                        *)
Less(s, t) == LexLess(Bytes(s), Bytes(t))

(* Vec::sort of distinct names.                                             *)
sort(S) ==
    CHOOSE o \in Orders(S) : \A i, j \in 1..Cardinality(S) : i < j => Less(o[i], o[j])

(* The index pairs of "for i in 0..n { for j in (i + 1)..n", in loop order. *)
IndexPairs(n) ==
    LET P == {p \in (1..n) \X (1..n) : p[1] < p[2]}
    IN  CHOOSE o \in Orders(P) :
            \A a, b \in 1..Cardinality(P) :
                a < b => \/ o[a][1] < o[b][1]
                         \/ o[a][1] = o[b][1] /\ o[a][2] < o[b][2]

RECURSIVE Flatten(_)
Flatten(seqs) == IF seqs = <<>> THEN <<>> ELSE Head(seqs) \o Flatten(Tail(seqs))

(* Fingerprint lengths a snapshot can have, in items, and the comparator's  *)
(* window_size and min_buffer_size in the same unit.                        *)
FpLens == {1, 2, 20}

window_size == 2

min_buffer_size == 3

match_threshold == 85

divergence_threshold == 50

(* What match_fingerprints and the sums over its segments can give:         *)
(* an error, or a total similar time (in items) and an average offset.      *)
NoMatch == [ok |-> FALSE, similar_time |-> 0, offset |-> 0]

Matches ==
    {NoMatch} \cup
    {[ok |-> TRUE, similar_time |-> t, offset |-> o] : t \in {0, 10, 17, 20}, o \in {-1, 1}}

(* The match of a against b, given in base for the two in the order of the  *)
(* channel's stream list: matching b against a gives the opposite offset    *)
(* ("positive means fp2 is ahead of fp1").                                  *)
ListedBefore(a, b) ==
    \E c \in ChannelNames : \E i, j \in 1..Len(channels[c]) :
        i < j /\ channels[c][i] = a /\ channels[c][j] = b

match_of(a, b, base) ==
    IF ListedBefore(a, b) THEN base[{a, b}]
    ELSE [base[{a, b}] EXCEPT !.offset = -@]

get_similarity_time(len1, len2, m) ==
    IF len1 < window_size \/ len2 < window_size THEN NoMatch ELSE m

(* (similar_time / total_duration) * 100.0, with integers.                  *)
similarity_percent(similar_time, len1) == (similar_time * 100) \div len1

(* within_pair with is_error decided by <=.                                 *)
within_pair_inclusive(si, sj, lens, m) ==
    LET sim == get_similarity_time(lens[si], lens[sj], m)
        percent == similarity_percent(sim.similar_time, lens[si])
    IN  IF ~sim.ok THEN <<>>
        ELSE <<[stream1 |-> IF Less(si, sj) THEN si ELSE sj,
                stream2 |-> IF Less(si, sj) THEN sj ELSE si,
                similarity_percent |-> percent,
                is_within_channel |-> TRUE,
                is_error |-> percent <= match_threshold,
                offset_seconds |-> <<IF Less(si, sj) THEN sim.offset ELSE -sim.offset>>]>>

(* One iteration of the pair loop of compare_channel_streams.               *)
within_pair(si, sj, lens, m) ==
    LET sim == get_similarity_time(lens[si], lens[sj], m)
        percent == similarity_percent(sim.similar_time, lens[si])
    IN  IF ~sim.ok THEN <<>>
        ELSE <<[stream1 |-> IF Less(si, sj) THEN si ELSE sj,
                stream2 |-> IF Less(si, sj) THEN sj ELSE si,
                similarity_percent |-> percent,
                is_within_channel |-> TRUE,
                is_error |-> percent < match_threshold,
                offset_seconds |-> <<IF Less(si, sj) THEN sim.offset ELSE -sim.offset>>]>>

(* compare_channel_streams: lens[s] is the length of the snapshot read for  *)
(* stream s, ms what the matches give (see match_of).                       *)
compare_channel_streams(stream_names, lens, ms) ==
    IF Len(stream_names) < 2 THEN <<>>
    ELSE LET fingerprints ==
                 {stream_names[i] : i \in {k \in 1..Len(stream_names) :
                                             lens[stream_names[k]] >= min_buffer_size}}
         IN  IF Cardinality(fingerprints) < 2 THEN <<>>
             ELSE LET streams == sort(fingerprints)
                      pairs == IndexPairs(Len(streams))
                  IN  Flatten([k \in 1..Len(pairs) |->
                                 within_pair(streams[pairs[k][1]], streams[pairs[k][2]],
                                             lens,
                                             match_of(streams[pairs[k][1]],
                                                      streams[pairs[k][2]], ms))])

(* cross_pair keeping the two names in loop order.                         *)
cross_pair_unordered(stream1_name, stream2_name, l1, l2, m) ==
    IF l1 >= min_buffer_size /\ l2 >= min_buffer_size
    THEN LET sim == get_similarity_time(l1, l2, m)
             percent == similarity_percent(sim.similar_time, l1)
         IN  IF ~sim.ok THEN <<>>
             ELSE <<[stream1 |-> stream1_name,
                     stream2 |-> stream2_name,
                     similarity_percent |-> percent,
                     is_within_channel |-> FALSE,
                     is_error |-> percent > divergence_threshold,
                     offset_seconds |-> << >>]>>
    ELSE <<>>

(* cross_pair checking the length of the first snapshot only.              *)
cross_pair_unbuffered(stream1_name, stream2_name, l1, l2, m) ==
    IF l1 >= min_buffer_size
    THEN LET sim == get_similarity_time(l1, l2, m)
             percent == similarity_percent(sim.similar_time, l1)
         IN  IF ~sim.ok THEN <<>>
             ELSE <<[stream1 |-> IF Less(stream1_name, stream2_name)
                                 THEN stream1_name ELSE stream2_name,
                     stream2 |-> IF Less(stream1_name, stream2_name)
                                 THEN stream2_name ELSE stream1_name,
                     similarity_percent |-> percent,
                     is_within_channel |-> FALSE,
                     is_error |-> percent > divergence_threshold,
                     offset_seconds |-> << >>]>>
    ELSE <<>>

(* One iteration of the loops of compare_across_channels: l1 and l2 are the *)
(* lengths of the two snapshots read for this pair.                         *)
cross_pair(stream1_name, stream2_name, l1, l2, m) ==
    IF l1 >= min_buffer_size /\ l2 >= min_buffer_size
    THEN LET sim == get_similarity_time(l1, l2, m)
             percent == similarity_percent(sim.similar_time, l1)
         IN  IF ~sim.ok THEN <<>>
             ELSE <<[stream1 |-> IF Less(stream1_name, stream2_name)
                                 THEN stream1_name ELSE stream2_name,
                     stream2 |-> IF Less(stream1_name, stream2_name)
                                 THEN stream2_name ELSE stream1_name,
                     similarity_percent |-> percent,
                     is_within_channel |-> FALSE,
                     is_error |-> percent > divergence_threshold,
                     offset_seconds |-> << >>]>>
    ELSE <<>>

(* compare_across_channels: reads[<<s1, s2>>] are the lengths of the two    *)
(* snapshots read for the pair, ms[<<s1, s2>>] what their match gives.       *)
compare_across_channels(channel1, channel2, reads, ms) ==
    LET streams1 == get_channel_streams(channel1)
        streams2 == get_channel_streams(channel2)
    IN  Flatten([k \in 1..(Len(streams1) * Len(streams2)) |->
                    LET s1 == streams1[((k - 1) \div Len(streams2)) + 1]
                        s2 == streams2[((k - 1) % Len(streams2)) + 1]
                    IN  cross_pair(s1, s2, reads[<<s1, s2>>][1], reads[<<s1, s2>>][2],
                                   ms[<<s1, s2>>])])

(* The alert id and the message the loop passes to update_alert.            *)
alert_id_of(result) == result.stream1 \o "_" \o result.stream2

message_of(result) ==
    IF result.is_within_channel
    THEN (IF result.is_error THEN "diverging" ELSE "matching")
    ELSE (IF result.is_error THEN "colliding" ELSE "different")

(* The pairs the loops compare: within a channel, and across two channels.  *)
WithinPairs ==
    UNION {{p \in SUBSET StreamsOf(c) : Cardinality(p) = 2} : c \in ChannelNames}

CrossPairs ==
    UNION {StreamsOf(cd[1]) \X StreamsOf(cd[2]) :
              cd \in {x \in ChannelNames \X ChannelNames : Less(x[1], x[2])}}

----------------------------------------------------------------------------
(* One stream: its source process (src/src/utils/commandprocessor.rs), the *)
(* bus the reader publishes to, and the two consumers AudioStream::new     *)
(* subscribes (src/src/utils/audiostream.rs, src/src/utils/volumedetect.rs),*)
(* under the supervisor of src/src/utils/audiorouter.rs.                    *)
(*                                                                         *)
(* A chunk is <<g, k>>: the k-th block of bytes child g wrote to its       *)
(* stdout.  A fingerprint is the sequence 1..n of the items the            *)
(* fingerprinter has produced so far.  The clock of this part is the       *)
(* watchdog's: idle counts its 5 s sleeps since last_message was written.  *)

Consumers == {"audio", "volume"}

Children == 1 .. MaxSpawns

(* broadcast::channel(1024), in chunks. *)
BusCapacity == 1

(* stall_timeout, 30 s, in sleeps of the watchdog. *)
stall_timeout == 2

(* record_size = buffer_duration / item_duration, in items. *)
record_size == 2

(* max_buffer_size of the VolumeDetector, in chunks. *)
max_buffer_size == 2

NoChunk == <<0, 0>>

NoChild == [state |-> "none", wrote |-> 0, read |-> 0, reader |-> "none"]

(* CommandHolder::spawn: a child with piped stdout and a task reading it.  *)
(* The Child handle is dropped when spawn returns; the process runs on.    *)
spawn == [state |-> "alive", wrote |-> 0, read |-> 0, reader |-> "reading"]

(* A recv that takes an empty bus for a closed one. *)
recv_closing(consumer) ==
    IF Len(bus) - cursor[consumer] > BusCapacity
    THEN [kind |-> "Lagged", data |-> NoChunk, next |-> Len(bus) - BusCapacity]
    ELSE IF cursor[consumer] < Len(bus)
    THEN [kind |-> "Ok", data |-> bus[cursor[consumer] + 1], next |-> cursor[consumer] + 1]
    ELSE [kind |-> "Closed", data |-> NoChunk, next |-> cursor[consumer]]

(* Receiver::recv of the broadcast bus for a consumer that has taken or    *)
(* skipped cursor[consumer] chunks: a receiver more than the capacity       *)
(* behind gets Lagged once and is moved to the oldest chunk retained; one   *)
(* that has taken everything waits, the Sender of CommandHolder.output      *)
(* being never dropped.                                                     *)
recv(consumer) ==
    IF Len(bus) - cursor[consumer] > BusCapacity
    THEN [kind |-> "Lagged", data |-> NoChunk, next |-> Len(bus) - BusCapacity]
    ELSE IF cursor[consumer] < Len(bus)
    THEN [kind |-> "Ok", data |-> bus[cursor[consumer] + 1], next |-> cursor[consumer] + 1]
    ELSE [kind |-> "Empty", data |-> NoChunk, next |-> cursor[consumer]]

(* Fingerprinter::fingerprint: every item produced since start.            *)
fingerprint(n) == [i \in 1 .. n |-> i]

(* The rolling buffer keeping the head of the fingerprint. *)
trim_head(fingerprint_content) ==
    IF Len(fingerprint_content) > record_size
    THEN SubSeq(fingerprint_content, 1, record_size)
    ELSE fingerprint_content

(* clear, extend and split_off of the rolling buffer.                      *)
trim(fingerprint_content) ==
    IF Len(fingerprint_content) > record_size
    THEN LET start == Len(fingerprint_content) - record_size
         IN  SubSeq(fingerprint_content, start + 1, Len(fingerprint_content))
    ELSE fingerprint_content

(* extend and pop_front of the VolumeDetector's buffer.                    *)
fill(buf, data) ==
    LET all == Append(buf, data)
    IN  IF Len(all) > max_buffer_size
        THEN SubSeq(all, Len(all) - max_buffer_size + 1, Len(all))
        ELSE all

(* AudioRouter::new: no alert manager and no threshold;                    *)
(* with_alert_manager sets both.                                            *)
AudioRouter_new ==
    [alert_manager |-> "None", minimum_max_volume_threshold |-> "None"]

with_alert_manager(r, alert_manager, minimum_max_volume_threshold) ==
    [r EXCEPT !.alert_manager = alert_manager,
              !.minimum_max_volume_threshold = minimum_max_volume_threshold]

(* The router that main() builds and keeps.                                 *)
router == AudioRouter_new

(* VolumeMetrics::default, and the max_volume levels ffmpeg may report.    *)
default_max_volume == -100

Volumes == {default_max_volume, -60, -20}

(* VolumeDetector::get_metrics: the default while the buffer is short or   *)
(* when ffmpeg fails, else what ffmpeg measured.                            *)
get_metrics(buf, measured) == IF buf = << >> THEN default_max_volume ELSE measured

(* CommandHolder::spawn, the stdin of child g: input.take() hands the     *)
(* Receiver to a feeder task of this child, if the holder still has it.     *)
feed(holder, g) ==
    IF holder.input = "Some"
    THEN [input |-> "None", feeder |-> g]
    ELSE holder

(* CommandHolder::new and AudioStream::new, for a source that is given the *)
(* Receiver of an upstream bus.                                             *)
InitSource ==
    /\ child = [g \in Children |-> IF g = 1 THEN spawn ELSE NoChild]
    /\ spawned = 1
    /\ written = << >>
    /\ bus = << >>
    /\ cursor = [c \in Consumers |-> 0]
    /\ got = [c \in Consumers |-> << >>]
    /\ gap = {}
    /\ cmd_health = "Running"
    /\ idle = 0
    /\ restart_count = 0
    /\ wpc = "sleep"
    /\ current_health = "Running"
    /\ spc = "sleep"
    /\ audio_health = "NoData"
    /\ apc = "recv"
    /\ fingerprinter = 0
    /\ output = << >>
    /\ vpc = "recv"
    /\ buffer = << >>
    /\ input = feed([input |-> "Some", feeder |-> 0], 1).input
    /\ feeder = feed([input |-> "Some", feeder |-> 0], 1).feeder

(* AudioRouter::new: no metrics stored. *)
InitRouter == volume_metrics = << >> /\ ids = << >>

(* The configuration main() reads: whether the tuner "sdr0" is defined and  *)
(* whether it is to be launched here, and the streams of the channels in    *)
(* the order the maps are iterated.                                         *)
Sdrs == {"None", "remote", "spawn"}

Streams ==
    {[type |-> "Web", host |-> "http://a"], [type |-> "FM", host |-> "sdr0"],
     [type |-> "NRSC", host |-> "sdr0"], [type |-> "NRSC", host |-> "sdr1"]}

Configs ==
    {[sdrs |-> s, streams |-> q] :
        s \in Sdrs, q \in UNION {[1..n -> Streams] : n \in 1..MaxStreams}}

NoConfig == [sdrs |-> "None", streams |-> << >>]

(* max_retries of SdrManager::spawn and of RtlTcpConnection::connect.       *)
spawn_max_retries == 10

connect_max_retries == 20

(* Child::try_wait on the tuner: Some(status) once it has exited.  The Err *)
(* arm answers a child that was waited for elsewhere, which nothing does.   *)
try_wait(t) == IF t = "exited" THEN "Some" ELSE "None"

(* main() before it has read the configuration; SdrManager::new and        *)
(* RtlTcpConnection::new.                                                   *)
InitStartup ==
    /\ mpc = "config"
    /\ config = NoConfig
    /\ process = "None"
    /\ tuner = "none"
    /\ port = FALSE
    /\ attempt = 0
    /\ connected = FALSE
    /\ spawn_result = "none"
    /\ launched = 0
    /\ retries = 0
    /\ attempts = 0
    /\ connect_result = "none"
    /\ nth = 1
    /\ added = << >>
    /\ started = {}

----------------------------------------------------------------------------
(* The state after main() has built the AlertManager and called            *)
(* start_alert_loop: an empty map, the loop in its first sleep.             *)

NoEpisode ==
    [failed_at |-> NoTime, failed_in |-> NoTime, mark |-> 0, clean |-> TRUE,
     recovered_at |-> NoTime, recovered_in |-> NoTime]

(* StreamComparator::new: no results published, the loop in its sleep.      *)
InitComparator ==
    /\ results = << >>
    /\ new_results = << >>
    /\ cpc = "sleep"
    /\ ri = 1
    /\ snapshot = << >>
    /\ cycle = 0
    /\ complete = << >>
    /\ read_at = 0
    /\ short = {}
    /\ heard = << >>
    /\ before = << >>

Init ==
    /\ now = 0
    /\ alerts = << >>
    /\ pc = "sleep"
    /\ wake = LoopPeriod
    /\ sent = << >>
    /\ hist = << >>
    /\ episode = [id \in AlertIds |-> NoEpisode]
    /\ InitComparator
    /\ InitSource
    /\ InitRouter
    /\ InitStartup

(* A caller (the comparator loop, the volume detection loop) calls          *)
(* update_alert.                                                            *)
(* update_alert sending the Warning itself when the alert begins to fail.   *)
UpdateAlertSending(alert_id, is_error, message) ==
    /\ alerts' = update_alert(alerts, alert_id, is_error, message, now)
    /\ sent' = IF is_error /\ (alert_id \notin DOMAIN alerts \/ ~is_failing(alerts[alert_id]))
               THEN Append(sent, send("Warning", <<Issue(alert_id, alerts'[alert_id])>>, TRUE))
               ELSE sent
    /\ UNCHANGED <<now, pc, wake>>

UpdateAlert(alert_id, is_error, message) ==
    /\ alerts' = update_alert(alerts, alert_id, is_error, message, now)
    /\ UNCHANGED <<now, pc, wake, sent>>

(* The loop wakes from its sleep and runs process_alerts.                   *)
ProcessAlerts ==
    /\ pc = "sleep"
    /\ now >= wake
    /\ \E order \in Orders(DOMAIN alerts) :
          alerts' = process_alerts(order, alerts, now)
    /\ pc' = "aggregate"
    /\ UNCHANGED <<now, wake, sent>>

(* What SlackMessageSender::send returns for the three buckets: always     *)
(* true in a dry run, true or false when the message is posted.             *)
Outcomes(dry_run) ==
    IF dry_run THEN {[i \in 1..3 |-> TRUE]} ELSE [1..3 -> BOOLEAN]

(* The loop runs process_aggregated_alerts and goes back to sleep.          *)
ProcessAggregatedAlerts(dry_run) ==
    /\ pc = "aggregate"
    /\ \E order \in Orders(DOMAIN alerts), ok \in Outcomes(dry_run) :
          LET acc == collect(order,
                             [alerts |-> alerts, new_failures |-> <<>>,
                              clears |-> <<>>, reminders |-> <<>>],
                             now, GracePeriod)
          IN  /\ alerts' = acc.alerts
              /\ sent' = sends(acc, ok)
    /\ pc' = "sleep"
    /\ wake' = now + LoopPeriod
    /\ UNCHANGED now

(* Time passes while the loop sleeps.                                       *)
AdvanceTime(limit) ==
    /\ pc = "sleep"
    /\ now < wake
    /\ now < limit
    /\ now' = now + 1
    /\ UNCHANGED <<alerts, pc, wake, sent>>

----------------------------------------------------------------------------
(* The history variables, which the program does not read.                  *)

(* hist: one entry per issue of every message handed to the transport.      *)
RECURSIVE entries(_, _)
entries(msgs, t) ==
    IF msgs = <<>> THEN <<>>
    ELSE [i \in 1..Len(Head(msgs).issues) |->
             [category |-> Head(msgs).category, id |-> Head(msgs).issues[i].id, at |-> t]]
         \o entries(Tail(msgs), t)

Logged ==
    /\ hist' = hist \o entries(sent', now)
    /\ Len(hist') <= MaxHist

(* episode: when the latest failure of an alert began and when it ended,    *)
(* by the clock and by the loop cycle.  A cycle is named by the time of the *)
(* tick that ends it, which is wake whether the loop sleeps or is between   *)
(* its two passes.                                                          *)
Observed(alert_id, is_error) ==
    LET failing == alert_id \in DOMAIN alerts /\ is_failing(alerts[alert_id])
    IN  episode' = [episode EXCEPT ![alert_id] =
                      IF is_error /\ ~failing
                      THEN [failed_at |-> now, failed_in |-> wake,
                            mark |-> Len(hist),
                            clean |-> \/ alert_id \notin DOMAIN alerts
                                      \/ alerts[alert_id].pending_aggregation = "None",
                            recovered_at |-> NoTime, recovered_in |-> NoTime]
                      ELSE IF ~is_error /\ failing
                      THEN [@ EXCEPT !.recovered_at = now, !.recovered_in = wake]
                      ELSE @]

(* The same, forgetting a failure once it has ended.                        *)
Began(alert_id, is_error) ==
    LET failing == alert_id \in DOMAIN alerts /\ is_failing(alerts[alert_id])
    IN  episode' = [episode EXCEPT ![alert_id] =
                      IF is_error /\ ~failing
                      THEN [failed_at |-> now, failed_in |-> wake,
                            mark |-> Len(hist),
                            clean |-> \/ alert_id \notin DOMAIN alerts
                                      \/ alerts[alert_id].pending_aggregation = "None",
                            recovered_at |-> NoTime, recovered_in |-> NoTime]
                      ELSE IF ~is_error THEN NoEpisode
                      ELSE @]

----------------------------------------------------------------------------
(* The program with callers that report any condition at any time and a     *)
(* transport that may fail.                                                 *)

Next ==
    \/ \E id \in AlertIds, is_error \in BOOLEAN, message \in Messages :
          UpdateAlert(id, is_error, message) /\ Began(id, is_error) /\ UNCHANGED hist /\ UNCHANGED <<comparatorVars, sourceVars, routerVars, startVars>>
    \/ ProcessAlerts /\ UNCHANGED <<hist, episode>> /\ UNCHANGED <<comparatorVars, sourceVars, routerVars, startVars>>
    \/ ProcessAggregatedAlerts(FALSE) /\ Logged /\ UNCHANGED episode /\ UNCHANGED <<comparatorVars, sourceVars, routerVars, startVars>>
    \/ AdvanceTime(MaxTime) /\ UNCHANGED <<hist, episode>> /\ UNCHANGED <<comparatorVars, sourceVars, routerVars, startVars>>

Spec == Init /\ [][Next]_vars

----------------------------------------------------------------------------
(* The grace period scenario: every failure is cleared before it has        *)
(* lasted grace_period, so the clock does not reach failing_since +         *)
(* grace_period while an alert fails.                                      *)

ClearedInTime(t) ==
    \A id \in DOMAIN alerts :
        is_failing(alerts[id]) => t - alerts[id].failing_since < GracePeriod

NextGrace ==
    \/ \E id \in AlertIds, is_error \in BOOLEAN, message \in Messages :
          UpdateAlert(id, is_error, message) /\ Observed(id, is_error) /\ UNCHANGED hist /\ UNCHANGED <<comparatorVars, sourceVars, routerVars, startVars>>
    \/ ProcessAlerts /\ UNCHANGED <<hist, episode>> /\ UNCHANGED <<comparatorVars, sourceVars, routerVars, startVars>>
    \/ ProcessAggregatedAlerts(FALSE) /\ Logged /\ UNCHANGED episode /\ UNCHANGED <<comparatorVars, sourceVars, routerVars, startVars>>
    \/ ClearedInTime(now + 1) /\ AdvanceTime(MaxTime) /\ UNCHANGED <<hist, episode>> /\ UNCHANGED <<comparatorVars, sourceVars, routerVars, startVars>>

SpecGrace == Init /\ [][NextGrace]_vars

----------------------------------------------------------------------------
(* Long runs, in which reminders fall due, with the transport in dry run.   *)
(* A failure begins in the first cycles (or not at all) and may recover at  *)
(* any time; the message of a failing condition may change at any time.     *)

MayBegin(id) == now <= MaxOnset \/ (id \in DOMAIN alerts /\ is_failing(alerts[id]))

(* Scenario S3 and the reminder cadence: one monitored condition.           *)
LongId == "HD1-Tower_HD2-Tower"

NextLong ==
    \/ \E message \in Messages :
          UpdateAlert(LongId, FALSE, message) /\ Observed(LongId, FALSE) /\ UNCHANGED hist /\ UNCHANGED <<comparatorVars, sourceVars, routerVars, startVars>>
    \/ \E message \in Messages :
          /\ MayBegin(LongId)
          /\ UpdateAlert(LongId, TRUE, message) /\ Observed(LongId, TRUE) /\ UNCHANGED hist
          /\ UNCHANGED <<comparatorVars, sourceVars, routerVars, startVars>>
    \/ ProcessAlerts /\ UNCHANGED <<hist, episode>> /\ UNCHANGED <<comparatorVars, sourceVars, routerVars, startVars>>
    \/ ProcessAggregatedAlerts(TRUE) /\ Logged /\ UNCHANGED episode /\ UNCHANGED <<comparatorVars, sourceVars, routerVars, startVars>>
    \/ AdvanceTime(MaxTimeLong) /\ UNCHANGED <<hist, episode>> /\ UNCHANGED <<comparatorVars, sourceVars, routerVars, startVars>>

SpecLong == Init /\ [][NextLong]_vars

(* Aggregation: both monitored conditions, up to the first reminders,       *)
(* without the history.                                                     *)
NextBuckets ==
    \/ \E id \in AlertIds, message \in Messages :
          UpdateAlert(id, FALSE, message) /\ UNCHANGED <<hist, episode>> /\ UNCHANGED <<comparatorVars, sourceVars, routerVars, startVars>>
    \/ \E id \in AlertIds, message \in Messages :
          MayBegin(id) /\ UpdateAlert(id, TRUE, message) /\ UNCHANGED <<hist, episode>> /\ UNCHANGED <<comparatorVars, sourceVars, routerVars, startVars>>
    \/ ProcessAlerts /\ UNCHANGED <<hist, episode>> /\ UNCHANGED <<comparatorVars, sourceVars, routerVars, startVars>>
    \/ ProcessAggregatedAlerts(TRUE) /\ UNCHANGED <<hist, episode>> /\ UNCHANGED <<comparatorVars, sourceVars, routerVars, startVars>>
    \/ AdvanceTime(MaxTimeBuckets) /\ UNCHANGED <<hist, episode>> /\ UNCHANGED <<comparatorVars, sourceVars, routerVars, startVars>>

SpecBuckets == Init /\ [][NextBuckets]_vars

----------------------------------------------------------------------------
(* The comparator loop, one step per await-separated phase of a cycle.      *)

(* The loop wakes and compares the streams within each channel; order is    *)
(* the iteration order of the channel HashMap.                              *)
CompareChannels(order, lens, ms) ==
    /\ cpc = "sleep"
    /\ new_results' =
          Flatten([k \in 1..Len(order) |->
                      compare_channel_streams(get_channel_streams(order[k]), lens, ms)])
    /\ cpc' = "across"
    /\ UNCHANGED <<results, ri, snapshot, alertVars>>

(* It compares across every two channels of the sorted channel list; with   *)
(* no result in the vector the alert loop has nothing to do.                *)
CompareAcross(reads, ms) ==
    /\ cpc = "across"
    /\ LET sorted == sort(ChannelNames)
           pairs == IndexPairs(Len(sorted))
       IN  new_results' =
              new_results \o
              Flatten([k \in 1..Len(pairs) |->
                          compare_across_channels(sorted[pairs[k][1]], sorted[pairs[k][2]],
                                                  reads, ms)])
    /\ cpc' = IF new_results' = <<>> THEN "publish" ELSE "alerts"
    /\ ri' = 1
    /\ UNCHANGED <<results, snapshot, alertVars>>

(* One iteration of "for result in &new_results": update_alert.             *)
ReportResult ==
    /\ cpc = "alerts"
    /\ alerts' = update_alert(alerts, alert_id_of(new_results[ri]),
                              new_results[ri].is_error, message_of(new_results[ri]), now)
    /\ IF ri = Len(new_results)
       THEN cpc' = "publish" /\ ri' = 1
       ELSE cpc' = cpc /\ ri' = ri + 1
    /\ UNCHANGED <<results, new_results, snapshot, now, pc, wake, sent, hist, episode>>

(* Publish appending to the published vector instead of replacing it.       *)
PublishAppending ==
    /\ cpc = "publish"
    /\ results' = results \o new_results
    /\ new_results' = << >>
    /\ cpc' = "sleep"
    /\ UNCHANGED <<ri, snapshot, alertVars>>

(* "*results.write().await = new_results": the vector is moved in.          *)
Publish ==
    /\ cpc = "publish"
    /\ results' = new_results
    /\ new_results' = << >>
    /\ cpc' = "sleep"
    /\ UNCHANGED <<ri, snapshot, alertVars>>

(* A reader (status_page, metrics_endpoint) clones the vector under the     *)
(* read lock.                                                               *)
ReadResults ==
    /\ snapshot' = results
    /\ UNCHANGED <<results, new_results, cpc, ri, alertVars>>

(* The history of the comparator.                                           *)
PairId(a, b) == IF Less(a, b) THEN a \o "_" \o b ELSE b \o "_" \o a

PairIds ==
    {PairId(p[1], p[2]) : p \in CrossPairs}
    \cup {PairId(p[1], p[2]) : p \in {x \in StreamNames \X StreamNames :
                                         {x[1], x[2]} \in WithinPairs}}

BeganCycle(lens, ms) ==
    /\ short' = {PairId(p[1], p[2]) : p \in
                    {x \in StreamNames \X StreamNames :
                        /\ {x[1], x[2]} \in WithinPairs
                        /\ lens[x[1]] < min_buffer_size \/ lens[x[2]] < min_buffer_size}}
    /\ heard' = ms
    /\ before' = alerts
    /\ UNCHANGED <<cycle, complete, read_at>>

NotedShort(reads) ==
    /\ short' = short \cup
                {PairId(p[1], p[2]) : p \in
                    {x \in CrossPairs : reads[x][1] < min_buffer_size
                                        \/ reads[x][2] < min_buffer_size}}
    /\ UNCHANGED <<heard, before, cycle, complete, read_at>>

Completed ==
    /\ cycle' = cycle + 1
    /\ complete' = Append(complete, new_results)
    /\ UNCHANGED <<short, heard, before, read_at>>

Seen ==
    /\ read_at' = cycle
    /\ UNCHANGED <<short, heard, before, cycle, complete>>

(* The similarity of a cross-channel pair has no offset to choose.          *)
CrossMatches == {m \in Matches : m.offset >= 0}

(* The first cycle of the comparator, after earlier reports of failure for  *)
(* some of the pairs, with every length of snapshot and every outcome of    *)
(* the matches.                                                             *)
NextCompare ==
    \/ \E id \in PairIds :
          /\ cpc = "sleep" /\ cycle = 0
          /\ UpdateAlert(id, TRUE, "m1")
          /\ UNCHANGED <<hist, episode, comparatorVars, sourceVars, routerVars, startVars>>
    \/ \E order \in Orders(ChannelNames), lens \in [StreamNames -> FpLens],
          ms \in [WithinPairs -> Matches] :
          cycle = 0 /\ CompareChannels(order, lens, ms) /\ BeganCycle(lens, ms) /\ UNCHANGED <<sourceVars, routerVars, startVars>>
    \/ \E reads \in [CrossPairs -> {2, 20} \X {2, 20}], ms \in [CrossPairs -> CrossMatches] :
          CompareAcross(reads, ms) /\ NotedShort(reads) /\ UNCHANGED <<sourceVars, routerVars, startVars>>
    \/ ReportResult /\ UNCHANGED <<short, heard, before, cycle, complete, read_at>> /\ UNCHANGED <<sourceVars, routerVars, startVars>>
    \/ Publish /\ Completed /\ UNCHANGED <<sourceVars, routerVars, startVars>>

SpecCompare == Init /\ [][NextCompare]_vars

(* Successive cycles with readers in between: full snapshots, and matches   *)
(* that give a result or none.                                              *)
FewMatches == {NoMatch, [ok |-> TRUE, similar_time |-> 17, offset |-> 1]}

NextPublish ==
    \/ \E order \in Orders(ChannelNames), ms \in [WithinPairs -> FewMatches] :
          /\ cycle < MaxCycles
          /\ CompareChannels(order, [s \in StreamNames |-> 20], ms)
          /\ BeganCycle([s \in StreamNames |-> 20], ms) /\ UNCHANGED <<sourceVars, routerVars, startVars>>
    \/ \E ms \in [CrossPairs -> FewMatches] :
          /\ CompareAcross([p \in CrossPairs |-> <<20, 20>>], ms)
          /\ NotedShort([p \in CrossPairs |-> <<20, 20>>]) /\ UNCHANGED <<sourceVars, routerVars, startVars>>
    \/ ReportResult /\ UNCHANGED <<short, heard, before, cycle, complete, read_at>> /\ UNCHANGED <<sourceVars, routerVars, startVars>>
    \/ Publish /\ Completed /\ UNCHANGED <<sourceVars, routerVars, startVars>>
    \/ ReadResults /\ Seen /\ UNCHANGED <<sourceVars, routerVars, startVars>>

SpecPublish == Init /\ [][NextPublish]_vars


----------------------------------------------------------------------------
(* The tasks of one stream. *)

(* The child writes one more block to its stdout; the children write      *)
(* MaxWrites blocks in all.                                                 *)
ChildWrite(g) ==
    /\ child[g].state = "alive"
    /\ Len(written) < MaxWrites
    /\ child' = [child EXCEPT ![g].wrote = @ + 1]
    /\ written' = Append(written, <<g, child[g].wrote + 1>>)
    /\ UNCHANGED <<spawned, bus, cursor, got, gap, cmd_health, idle, restart_count, wpc,
                   current_health, spc, audio_health, apc, fingerprinter, output, vpc,
                   buffer, input, feeder>>

(* The child exits or is killed; what it wrote stays in the pipe. *)
ChildExit(g) ==
    /\ child[g].state = "alive"
    /\ child' = [child EXCEPT ![g].state = "exited"]
    /\ UNCHANGED <<spawned, written, bus, cursor, got, gap, cmd_health, idle,
                   restart_count, wpc, current_health, spc, audio_health, apc,
                   fingerprinter, output, vpc, buffer, input, feeder>>

(* The stdout reader of child g, Ok(n): stamps last_message, sets Running  *)
(* and sends the chunk.                                                     *)
ReaderRead(g) ==
    /\ child[g].reader = "reading"
    /\ child[g].read < child[g].wrote
    /\ child' = [child EXCEPT ![g].read = @ + 1]
    /\ idle' = 0
    /\ cmd_health' = "Running"
    /\ bus' = Append(bus, <<g, child[g].read + 1>>)
    /\ UNCHANGED <<spawned, written, cursor, got, gap, restart_count, wpc,
                   current_health, spc, audio_health, apc, fingerprinter, output, vpc,
                   buffer, input, feeder>>

(* The stdout reader of child g at the end of the pipe: sets Dead and      *)
(* leaves its loop.                                                         *)
ReaderEnd(g) ==
    /\ child[g].reader = "reading"
    /\ child[g].read = child[g].wrote
    /\ child[g].state = "exited"
    /\ child' = [child EXCEPT ![g].reader = "done"]
    /\ cmd_health' = "Dead"
    /\ UNCHANGED <<spawned, written, bus, cursor, got, gap, idle, restart_count, wpc,
                   current_health, spc, audio_health, apc, fingerprinter, output, vpc,
                   buffer, input, feeder>>

(* The thread of AudioStream::new at input.recv(): Ok sets Running at      *)
(* once, any error sets Dead and ends the thread.                           *)
AudioRecv ==
    /\ apc = "recv"
    /\ LET r == recv("audio") IN
       /\ r.kind # "Empty"
       /\ cursor' = [cursor EXCEPT !["audio"] = r.next]
       /\ IF r.kind = "Ok"
          THEN /\ got' = [got EXCEPT !["audio"] = Append(@, r.data)]
               /\ audio_health' = "Running"
               /\ apc' = "consume"
               /\ UNCHANGED gap
          ELSE /\ gap' = IF r.kind = "Lagged" THEN gap \cup {"audio"} ELSE gap
               /\ audio_health' = "Dead"
               /\ apc' = "done"
               /\ UNCHANGED got
    /\ UNCHANGED <<child, spawned, written, bus, cmd_health, idle, restart_count, wpc,
                   current_health, spc, fingerprinter, output, vpc, buffer, input, feeder>>

(* The same thread after the chunk: consume, fingerprint, and the health   *)
(* the fingerprint's emptiness gives.                                       *)
AudioConsume(items) ==
    /\ apc = "consume"
    /\ fingerprinter + items <= MaxItems
    /\ fingerprinter' = fingerprinter + items
    /\ audio_health' = IF fingerprint(fingerprinter') = << >> THEN "NoData" ELSE "Running"
    /\ apc' = "store"
    /\ UNCHANGED <<child, spawned, written, bus, cursor, got, gap, cmd_health, idle,
                   restart_count, wpc, current_health, spc, output, vpc, buffer, input, feeder>>

(* The same thread under the lock of the rolling buffer. *)
AudioStore ==
    /\ apc = "store"
    /\ output' = trim(fingerprint(fingerprinter))
    /\ apc' = "recv"
    /\ UNCHANGED <<child, spawned, written, bus, cursor, got, gap, cmd_health, idle,
                   restart_count, wpc, current_health, spc, audio_health, fingerprinter,
                   vpc, buffer, input, feeder>>

(* The fill task of VolumeDetector::new: Ok extends and trims the buffer,  *)
(* any error ends the task.                                                 *)
VolumeFill ==
    /\ vpc = "recv"
    /\ LET r == recv("volume") IN
       /\ r.kind # "Empty"
       /\ cursor' = [cursor EXCEPT !["volume"] = r.next]
       /\ IF r.kind = "Ok"
          THEN /\ got' = [got EXCEPT !["volume"] = Append(@, r.data)]
               /\ buffer' = fill(buffer, r.data)
               /\ UNCHANGED <<gap, vpc>>
          ELSE /\ gap' = IF r.kind = "Lagged" THEN gap \cup {"volume"} ELSE gap
               /\ vpc' = "done"
               /\ UNCHANGED <<got, buffer, input, feeder>>
    /\ UNCHANGED <<child, spawned, written, bus, cmd_health, idle, restart_count, wpc,
                   current_health, spc, audio_health, apc, fingerprinter, output, input,
                   feeder>>

(* The watchdog after its sleep of 5 s: reads health.  Of the sleeps that  *)
(* pass while the stream stays Dead, MaxRestarts are followed.              *)
WatchdogLook ==
    /\ wpc = "sleep"
    /\ cmd_health = "Dead" => restart_count < MaxRestarts
    /\ idle' = IF idle > stall_timeout THEN idle ELSE idle + 1
    /\ current_health' = cmd_health
    /\ wpc' = "act"
    /\ UNCHANGED <<child, spawned, written, bus, cursor, got, gap, cmd_health,
                   restart_count, spc, audio_health, apc, fingerprinter, output, vpc,
                   buffer, input, feeder>>

(* The watchdog then reads last_message and acts on the health it read.    *)
WatchdogAct ==
    /\ wpc = "act"
    /\ wpc' = "sleep"
    /\ CASE current_health = "Running" ->
              IF idle > stall_timeout
              THEN cmd_health' = "Stalled" /\ UNCHANGED restart_count
              ELSE restart_count' = 0 /\ UNCHANGED cmd_health
         [] current_health = "Stalled" ->
              /\ cmd_health' = IF idle <= stall_timeout THEN "Running" ELSE cmd_health
              /\ UNCHANGED restart_count
         [] current_health = "Dead" ->
              /\ restart_count' = restart_count + 1
              /\ UNCHANGED cmd_health
    /\ UNCHANGED <<child, spawned, written, bus, cursor, got, gap, idle, current_health,
                   spc, audio_health, apc, fingerprinter, output, vpc, buffer, input, feeder>>

(* CommandHolder::respawn for a supervisor that looks at the command only. *)
Supervise_command_only ==
    /\ spc = "sleep"
    /\ LET dead == cmd_health = "Dead"
       IN  /\ dead => spawned < MaxSpawns
           /\ spc' = IF dead THEN "respawn" ELSE "sleep"
    /\ UNCHANGED <<child, spawned, written, bus, cursor, got, gap, cmd_health, idle,
                   restart_count, wpc, current_health, audio_health, apc, fingerprinter,
                   output, vpc, buffer, input, feeder>>

(* A supervisor that respawns a stalled command as well. *)
Supervise_eager ==
    /\ spc = "sleep"
    /\ LET dead == \/ cmd_health \in {"Dead", "Stalled"}
                   \/ cmd_health = "Running" /\ audio_health = "Dead"
       IN  /\ dead => spawned < MaxSpawns
           /\ spc' = IF dead THEN "respawn" ELSE "sleep"
    /\ UNCHANGED <<child, spawned, written, bus, cursor, got, gap, cmd_health, idle,
                   restart_count, wpc, current_health, audio_health, apc, fingerprinter,
                   output, vpc, buffer, input, feeder>>

(* One pass of the supervisor over the stream: a dead command, or a        *)
(* running command with dead audio, is respawned.                           *)
Supervise ==
    /\ spc = "sleep"
    /\ LET dead == \/ cmd_health = "Dead"
                   \/ cmd_health = "Running" /\ audio_health = "Dead"
       IN  /\ dead => spawned < MaxSpawns
           /\ spc' = IF dead THEN "respawn" ELSE "sleep"
    /\ UNCHANGED <<child, spawned, written, bus, cursor, got, gap, cmd_health, idle,
                   restart_count, wpc, current_health, audio_health, apc, fingerprinter,
                   output, vpc, buffer, input, feeder>>

(* AudioRouter::restart_stream, on a command from Slack: respawn whatever  *)
(* the health.  It waits for the lock the supervisor's pass holds.          *)
RestartStream ==
    /\ spc = "sleep"
    /\ spawned < MaxSpawns
    /\ spc' = "respawn"
    /\ UNCHANGED <<child, spawned, written, bus, cursor, got, gap, cmd_health, idle,
                   restart_count, wpc, current_health, audio_health, apc, fingerprinter,
                   output, vpc, buffer, input, feeder>>

(* CommandHolder::respawn after its sleep of 30 s per restart counted:     *)
(* stamps last_message, sets Running and spawns.  The earlier child and    *)
(* its reader are left as they are.                                         *)
Respawn ==
    /\ spc = "respawn"
    /\ idle' = 0
    /\ cmd_health' = "Running"
    /\ spawned' = spawned + 1
    /\ child' = [child EXCEPT ![spawned + 1] = spawn]
    /\ input' = feed([input |-> input, feeder |-> feeder], spawned + 1).input
    /\ feeder' = feed([input |-> input, feeder |-> feeder], spawned + 1).feeder
    /\ spc' = "sleep"
    /\ UNCHANGED <<written, bus, cursor, got, gap, restart_count, wpc, current_health,
                   audio_health, apc, fingerprinter, output, vpc, buffer>>

ItemCounts == 0 .. 2

(* The stream's chunks from the child to the consumers: the tasks that     *)
(* write the bus, the cursors, the fingerprint and its health.  The        *)
(* watchdog writes none of these.                                           *)
NextStream ==
    \/ \E g \in Children : ChildWrite(g) /\ UNCHANGED <<alertVars, comparatorVars, routerVars, startVars>>
    \/ \E g \in Children : ChildExit(g) /\ UNCHANGED <<alertVars, comparatorVars, routerVars, startVars>>
    \/ \E g \in Children : ReaderRead(g) /\ UNCHANGED <<alertVars, comparatorVars, routerVars, startVars>>
    \/ \E g \in Children : ReaderEnd(g) /\ UNCHANGED <<alertVars, comparatorVars, routerVars, startVars>>
    \/ AudioRecv /\ UNCHANGED <<alertVars, comparatorVars, routerVars, startVars>>
    \/ \E items \in ItemCounts : AudioConsume(items) /\ UNCHANGED <<alertVars, comparatorVars, routerVars, startVars>>
    \/ AudioStore /\ UNCHANGED <<alertVars, comparatorVars, routerVars, startVars>>
    \/ VolumeFill /\ UNCHANGED <<alertVars, comparatorVars, routerVars, startVars>>
    \/ Supervise /\ UNCHANGED <<alertVars, comparatorVars, routerVars, startVars>>
    \/ Respawn /\ UNCHANGED <<alertVars, comparatorVars, routerVars, startVars>>

SpecStream == Init /\ [][NextStream]_vars

(* The children of the stream and what reaches its subscribers, with       *)
(* restarts on command.                                                     *)
NextSource ==
    \/ \E g \in Children : ChildWrite(g) /\ UNCHANGED <<alertVars, comparatorVars, routerVars, startVars>>
    \/ \E g \in Children : ChildExit(g) /\ UNCHANGED <<alertVars, comparatorVars, routerVars, startVars>>
    \/ \E g \in Children : ReaderRead(g) /\ UNCHANGED <<alertVars, comparatorVars, routerVars, startVars>>
    \/ \E g \in Children : ReaderEnd(g) /\ UNCHANGED <<alertVars, comparatorVars, routerVars, startVars>>
    \/ AudioRecv /\ UNCHANGED <<alertVars, comparatorVars, routerVars, startVars>>
    \/ AudioConsume(0) /\ UNCHANGED <<alertVars, comparatorVars, routerVars, startVars>>
    \/ AudioStore /\ UNCHANGED <<alertVars, comparatorVars, routerVars, startVars>>
    \/ VolumeFill /\ UNCHANGED <<alertVars, comparatorVars, routerVars, startVars>>
    \/ Supervise /\ UNCHANGED <<alertVars, comparatorVars, routerVars, startVars>>
    \/ RestartStream /\ UNCHANGED <<alertVars, comparatorVars, routerVars, startVars>>
    \/ Respawn /\ UNCHANGED <<alertVars, comparatorVars, routerVars, startVars>>

SpecSource == Init /\ [][NextSource]_vars

(* The source process with its reader, watchdog and supervisor, each       *)
(* scheduled again and again.                                               *)
NextRecover ==
    \/ \E g \in Children : ChildWrite(g) /\ UNCHANGED <<alertVars, comparatorVars, routerVars, startVars>>
    \/ \E g \in Children : ChildExit(g) /\ UNCHANGED <<alertVars, comparatorVars, routerVars, startVars>>
    \/ \E g \in Children : ReaderRead(g) /\ UNCHANGED <<alertVars, comparatorVars, routerVars, startVars>>
    \/ \E g \in Children : ReaderEnd(g) /\ UNCHANGED <<alertVars, comparatorVars, routerVars, startVars>>
    \/ WatchdogLook /\ UNCHANGED <<alertVars, comparatorVars, routerVars, startVars>>
    \/ WatchdogAct /\ UNCHANGED <<alertVars, comparatorVars, routerVars, startVars>>
    \/ Supervise /\ UNCHANGED <<alertVars, comparatorVars, routerVars, startVars>>
    \/ Respawn /\ UNCHANGED <<alertVars, comparatorVars, routerVars, startVars>>

Reader ==
    /\ \E g \in Children : ReaderRead(g) \/ ReaderEnd(g)
    /\ UNCHANGED <<alertVars, comparatorVars, routerVars, startVars>>

Watchdog ==
    /\ WatchdogLook \/ WatchdogAct
    /\ UNCHANGED <<alertVars, comparatorVars, routerVars, startVars>>

Supervisor ==
    /\ Supervise \/ Respawn
    /\ UNCHANGED <<alertVars, comparatorVars, routerVars, startVars>>

SpecRecover ==
    /\ Init
    /\ [][NextRecover]_vars
    /\ WF_vars(Reader)
    /\ WF_vars(Watchdog)
    /\ WF_vars(Supervisor)


(* The supervisor's view of one stream: the command's health as the reader *)
(* and the watchdog write it, the audio's health as the fingerprint thread *)
(* writes it.                                                               *)
NextSupervise ==
    \/ \E g \in Children : ChildWrite(g) /\ UNCHANGED <<alertVars, comparatorVars, routerVars, startVars>>
    \/ \E g \in Children : ChildExit(g) /\ UNCHANGED <<alertVars, comparatorVars, routerVars, startVars>>
    \/ \E g \in Children : ReaderRead(g) /\ UNCHANGED <<alertVars, comparatorVars, routerVars, startVars>>
    \/ \E g \in Children : ReaderEnd(g) /\ UNCHANGED <<alertVars, comparatorVars, routerVars, startVars>>
    \/ AudioRecv /\ UNCHANGED <<alertVars, comparatorVars, routerVars, startVars>>
    \/ AudioConsume(0) /\ UNCHANGED <<alertVars, comparatorVars, routerVars, startVars>>
    \/ AudioStore /\ UNCHANGED <<alertVars, comparatorVars, routerVars, startVars>>
    \/ WatchdogLook /\ UNCHANGED <<alertVars, comparatorVars, routerVars, startVars>>
    \/ WatchdogAct /\ UNCHANGED <<alertVars, comparatorVars, routerVars, startVars>>
    \/ Supervise /\ UNCHANGED <<alertVars, comparatorVars, routerVars, startVars>>
    \/ Respawn /\ UNCHANGED <<alertVars, comparatorVars, routerVars, startVars>>

SpecSupervise == Init /\ [][NextSupervise]_vars

(* The fingerprint thread of AudioStream::new, as long as it runs.          *)
Audio ==
    /\ AudioRecv \/ AudioConsume(0) \/ AudioStore
    /\ UNCHANGED <<alertVars, comparatorVars, routerVars, startVars>>

(* The same tasks, each scheduled again and again.                          *)
SpecRevive ==
    /\ Init
    /\ [][NextSupervise]_vars
    /\ WF_vars(Reader)
    /\ WF_vars(Audio)
    /\ WF_vars(Watchdog)
    /\ WF_vars(Supervisor)

(* AudioRouter.streams, the one lock of the map of all streams: the       *)
(* supervisor takes it for its pass and has it while respawn() sleeps and  *)
(* spawns; the other passes take and release it within their step.         *)
streams_lock == IF spc = "respawn" THEN "supervisor" ELSE "free"

(* The alert id of the silence probe of a stream.                           *)
silence_id(stream_name) == stream_name \o "_" \o "silence"

(* One pass of the task of start_volume_detection_loop over the stream:    *)
(* measure, report to the alert manager if the router has one, store.      *)
VolumeDetect(measured) ==
    LET stream_name == "HD1-Tower"
        metrics == get_metrics(buffer, measured)
        alert_id == silence_id(stream_name)
    IN  /\ streams_lock = "free"
        /\ IF router.alert_manager # "None"
           THEN LET is_error == metrics < router.minimum_max_volume_threshold
                IN  alerts' = update_alert(alerts, alert_id, is_error,
                                           IF is_error THEN "m1" ELSE "m2", now)
           ELSE UNCHANGED alerts
        /\ volume_metrics' = [s \in {stream_name} |-> metrics]
        /\ UNCHANGED ids
        /\ UNCHANGED <<now, pc, wake, sent, hist, episode>>

(* The silence probe of one stream beside the alert loop: the child, its   *)
(* reader and the fill task feed the buffer the probe measures.             *)
NextSilence ==
    \/ \E g \in Children : ChildWrite(g) /\ UNCHANGED <<alertVars, comparatorVars, routerVars, startVars>>
    \/ \E g \in Children : ReaderRead(g) /\ UNCHANGED <<alertVars, comparatorVars, routerVars, startVars>>
    \/ VolumeFill /\ UNCHANGED <<alertVars, comparatorVars, routerVars, startVars>>
    \/ \E measured \in Volumes : VolumeDetect(measured) /\ UNCHANGED <<comparatorVars, sourceVars, startVars>>
    \/ ProcessAlerts /\ UNCHANGED <<hist, episode>> /\ UNCHANGED <<comparatorVars, sourceVars, routerVars, startVars>>
    \/ ProcessAggregatedAlerts(FALSE) /\ Logged /\ UNCHANGED episode /\ UNCHANGED <<comparatorVars, sourceVars, routerVars, startVars>>
    \/ AdvanceTime(MaxTime) /\ UNCHANGED <<hist, episode>> /\ UNCHANGED <<comparatorVars, sourceVars, routerVars, startVars>>

SpecSilence == Init /\ [][NextSilence]_vars

(* The channels of a configuration and the keys of their streams.           *)
ConfigChannels == {"A", "HD1"}

ConfigStreams(channel) ==
    IF channel = "A" THEN {"1", "1_A-2", "2_A-3", "3"} ELSE {"Tower"}

(* main(): the name a stream of the configuration is added under.           *)
stream_name_of(channel, key) == channel \o "-" \o key

(* main(): the silence reference, a stream and a channel of the same name.  *)
silence_stream == "silence"

(* The channel map of the router for this configuration with silence       *)
(* detection enabled: channel name to stream names.                          *)
ConfigMap ==
    [c \in ConfigChannels \cup {silence_stream} |->
        IF c = silence_stream THEN {silence_stream}
        ELSE {stream_name_of(c, k) : k \in ConfigStreams(c)}]

ConfigNames == UNION {ConfigMap[c] : c \in DOMAIN ConfigMap}

(* An alert id is computed for a condition: a pair of streams the          *)
(* comparator reports, or the one stream the silence probe measures.        *)
note(computed, alert_id, condition) ==
    IF alert_id \in DOMAIN computed
    THEN [computed EXCEPT ![alert_id] = @ \cup {condition}]
    ELSE [id \in DOMAIN computed \cup {alert_id} |->
             IF id = alert_id THEN {condition} ELSE computed[id]]

Noted == UNION {ids[id] : id \in DOMAIN ids}

(* The comparison loop reports two streams of one channel, taken in the    *)
(* sorted order of compare_channel_streams.                                  *)
WithinAlert(channel, s1, s2) ==
    /\ s1 \in ConfigMap[channel] /\ s2 \in ConfigMap[channel]
    /\ Less(s1, s2)
    /\ Cardinality(Noted \cup {{s1, s2}}) <= MaxNoted
    /\ \E m \in Matches :
          LET rs == within_pair(s1, s2, [s \in {s1, s2} |-> 20], m)
          IN  /\ rs # << >>
              /\ ids' = note(ids, alert_id_of(rs[1]), {s1, s2})
    /\ UNCHANGED volume_metrics

(* The comparison loop reports two streams of two channels, the channels   *)
(* in sorted order.                                                          *)
CrossAlert(channel1, channel2, s1, s2) ==
    /\ Less(channel1, channel2)
    /\ s1 \in ConfigMap[channel1] /\ s2 \in ConfigMap[channel2]
    /\ Cardinality(Noted \cup {{s1, s2}}) <= MaxNoted
    /\ \E m \in Matches :
          LET rs == cross_pair(s1, s2, 20, 20, m)
          IN  /\ rs # << >>
              /\ ids' = note(ids, alert_id_of(rs[1]), {s1, s2})
    /\ UNCHANGED volume_metrics

(* The volume detection loop of a router that has an alert manager          *)
(* measures one stream.                                                      *)
SilenceAlert(stream_name) ==
    /\ Cardinality(Noted \cup {{stream_name}}) <= MaxNoted
    /\ ids' = note(ids, silence_id(stream_name), {stream_name})
    /\ UNCHANGED volume_metrics

(* The alert ids the two loops compute for the conditions of the           *)
(* configuration.                                                            *)
NextIds ==
    \/ \E channel \in DOMAIN ConfigMap, s1, s2 \in ConfigNames :
          WithinAlert(channel, s1, s2)
          /\ UNCHANGED <<alertVars, comparatorVars, sourceVars, startVars>>
    \/ \E channel1, channel2 \in DOMAIN ConfigMap, s1, s2 \in ConfigNames :
          CrossAlert(channel1, channel2, s1, s2)
          /\ UNCHANGED <<alertVars, comparatorVars, sourceVars, startVars>>
    \/ \E stream_name \in ConfigNames :
          SilenceAlert(stream_name)
          /\ UNCHANGED <<alertVars, comparatorVars, sourceVars, startVars>>

SpecIds == Init /\ [][NextIds]_vars

----------------------------------------------------------------------------
(* main(): the tuner, the connection to it, the streams, the loops.         *)

(* main() has parsed the configuration; an IQ server may be listening.      *)
LoadConfig(c, listening) ==
    /\ mpc = "config"
    /\ config' = c
    /\ port' = listening
    /\ mpc' = CASE c.sdrs = "spawn" -> "spawn"
                [] c.sdrs = "remote" -> "connect"
                [] OTHER -> "streams"
    /\ UNCHANGED <<process, tuner, attempt, connected, spawn_result, launched, retries,
                   attempts, connect_result, nth, added, started>>

(* SdrManager::spawn up to the launch of rtl_tcp.                           *)
SdrSpawn(launches) ==
    /\ mpc = "spawn"
    /\ IF process # "None"
       THEN /\ spawn_result' = "already running"
            /\ mpc' = "spawned"
            /\ UNCHANGED <<process, tuner, launched, attempt, connected>>
       ELSE IF port
       THEN /\ spawn_result' = "already in use"
            /\ mpc' = "spawned"
            /\ UNCHANGED <<process, tuner, launched, attempt, connected>>
       ELSE IF launches
       THEN /\ process' = "Some"
            /\ tuner' = "running"
            /\ launched' = launched + 1
            /\ attempt' = 0
            /\ connected' = FALSE
            /\ mpc' = "probe"
            /\ UNCHANGED spawn_result
       ELSE /\ spawn_result' = "Failed to spawn"
            /\ mpc' = "spawned"
            /\ UNCHANGED <<process, tuner, launched, attempt, connected>>
    /\ UNCHANGED <<config, port, retries, attempts, connect_result, nth, added, started>>

(* One turn of its loop: sleep 250 ms, connect to the port.                 *)
SdrProbe ==
    /\ mpc = "probe"
    /\ attempt' = attempt + 1
    /\ connected' = port
    /\ mpc' = IF port \/ attempt' >= spawn_max_retries THEN "settle" ELSE "probe"
    /\ UNCHANGED <<config, process, tuner, port, spawn_result, launched, retries,
                   attempts, connect_result, nth, added, started>>

(* A launch that drops the handle of a child that does not accept. *)
SdrSettle_leaking ==
    /\ mpc = "settle"
    /\ IF connected
       THEN spawn_result' = "Ok" /\ UNCHANGED <<process, tuner, port>>
       ELSE IF process = "None"
       THEN spawn_result' = "disappeared" /\ UNCHANGED <<process, tuner, port>>
       ELSE IF try_wait(tuner) = "Some"
       THEN spawn_result' = "exited" /\ process' = "None" /\ UNCHANGED <<tuner, port>>
       ELSE /\ spawn_result' = "not accepting"
            /\ process' = "None"
            /\ UNCHANGED <<tuner, port>>
    /\ mpc' = "spawned"
    /\ UNCHANGED <<config, attempt, connected, launched, retries, attempts,
                   connect_result, nth, added, started>>

(* After the loop: Ok if a probe connected; else the child is looked at,   *)
(* killed if it still runs, and the handle cleared.                         *)
SdrSettle ==
    /\ mpc = "settle"
    /\ IF connected
       THEN spawn_result' = "Ok" /\ UNCHANGED <<process, tuner, port>>
       ELSE IF process = "None"
       THEN spawn_result' = "disappeared" /\ UNCHANGED <<process, tuner, port>>
       ELSE IF try_wait(tuner) = "Some"
       THEN spawn_result' = "exited" /\ process' = "None" /\ UNCHANGED <<tuner, port>>
       ELSE /\ spawn_result' = "not accepting"
            /\ tuner' = "killed"
            /\ port' = FALSE
            /\ process' = "None"
    /\ mpc' = "spawned"
    /\ UNCHANGED <<config, attempt, connected, launched, retries, attempts,
                   connect_result, nth, added, started>>

(* The launched rtl_tcp begins to listen, or exits.                         *)
TunerListen ==
    /\ tuner = "running"
    /\ ~port
    /\ port' = TRUE
    /\ UNCHANGED <<mpc, config, process, tuner, attempt, connected, spawn_result,
                   launched, retries, attempts, connect_result, nth, added, started>>

TunerExit ==
    /\ tuner = "running"
    /\ tuner' = "exited"
    /\ port' = FALSE
    /\ UNCHANGED <<mpc, config, process, attempt, connected, spawn_result, launched,
                   retries, attempts, connect_result, nth, added, started>>

(* main() returns: the SdrManager is dropped, which kills a child it holds. *)
Return ==
    /\ mpc' = "returned"
    /\ process' = "None"
    /\ tuner' = IF process = "Some" /\ tuner = "running" THEN "killed" ELSE tuner
    /\ port' = IF process = "Some" /\ tuner = "running" THEN FALSE ELSE port

(* main() on what spawn returned: Ok keeps the manager, "already in use"   *)
(* goes on without it, any other error returns.                             *)
MainSpawned ==
    /\ mpc = "spawned"
    /\ IF spawn_result \in {"Ok", "already in use"}
       THEN mpc' = "connect" /\ UNCHANGED <<process, tuner, port>>
       ELSE Return
    /\ UNCHANGED <<config, attempt, connected, spawn_result, launched, retries,
                   attempts, connect_result, nth, added, started>>

(* connect giving up one failure later. *)
Connect_patient ==
    /\ mpc = "connect"
    /\ attempts' = attempts + 1
    /\ IF port
       THEN /\ connect_result' = "Ok"
            /\ mpc' = "streams"
            /\ UNCHANGED <<retries, process, tuner, port>>
       ELSE IF retries > connect_max_retries
       THEN /\ connect_result' = "Err"
            /\ Return
            /\ UNCHANGED retries
       ELSE /\ retries' = retries + 1
            /\ UNCHANGED <<mpc, process, tuner, port, connect_result>>
    /\ UNCHANGED <<config, attempt, connected, spawn_result, launched, nth, added,
                   started>>

(* One turn of the loop of RtlTcpConnection::connect, under                *)
(* NrscManager::start; main() returns on its error.                         *)
Connect ==
    /\ mpc = "connect"
    /\ attempts' = attempts + 1
    /\ IF port
       THEN /\ connect_result' = "Ok"
            /\ mpc' = "streams"
            /\ UNCHANGED <<retries, process, tuner, port>>
       ELSE IF retries >= connect_max_retries
       THEN /\ connect_result' = "Err"
            /\ Return
            /\ UNCHANGED retries
       ELSE /\ retries' = retries + 1
            /\ UNCHANGED <<mpc, process, tuner, port, connect_result>>
    /\ UNCHANGED <<config, attempt, connected, spawn_result, launched, nth, added,
                   started>>

(* The IQ server of a tuner that is not launched here comes up.             *)
ServerListen ==
    /\ mpc = "connect"
    /\ config.sdrs = "remote"
    /\ ~port
    /\ port' = TRUE
    /\ UNCHANGED <<mpc, config, process, tuner, attempt, connected, spawn_result,
                   launched, retries, attempts, connect_result, nth, added, started>>

(* main() at one stream of the configuration.                               *)
SanityCheck(program_added) ==
    /\ mpc = "streams"
    /\ nth <= Len(config.streams)
    /\ LET stream == config.streams[nth] IN
       CASE stream.type = "FM" ->
              /\ nth' = nth + 1
              /\ UNCHANGED <<mpc, process, tuner, port, added>>
         [] stream.type = "NRSC" ->
              IF config.sdrs = "None" \/ stream.host # "sdr0" \/ ~program_added
              THEN Return /\ UNCHANGED <<nth, added>>
              ELSE /\ added' = Append(added, stream)
                   /\ nth' = nth + 1
                   /\ UNCHANGED <<mpc, process, tuner, port>>
         [] stream.type = "Web" ->
              /\ added' = Append(added, stream)
              /\ nth' = nth + 1
              /\ UNCHANGED <<mpc, process, tuner, port>>
    /\ UNCHANGED <<config, attempt, connected, spawn_result, launched, retries,
                   attempts, connect_result, started>>

(* main() after the last stream: supervisor, volume detection, comparator. *)
StartLoops ==
    /\ mpc = "streams"
    /\ nth > Len(config.streams)
    /\ started' = {"supervisor", "volume", "comparator"}
    /\ mpc' = "serving"
    /\ UNCHANGED <<config, process, tuner, port, attempt, connected, spawn_result,
                   launched, retries, attempts, connect_result, nth, added>>

NextStartup ==
    \/ \E c \in Configs, listening \in BOOLEAN :
          LoadConfig(c, listening) /\ UNCHANGED <<alertVars, comparatorVars, sourceVars, routerVars>>
    \/ \E launches \in BOOLEAN :
          SdrSpawn(launches) /\ UNCHANGED <<alertVars, comparatorVars, sourceVars, routerVars>>
    \/ SdrProbe /\ UNCHANGED <<alertVars, comparatorVars, sourceVars, routerVars>>
    \/ SdrSettle /\ UNCHANGED <<alertVars, comparatorVars, sourceVars, routerVars>>
    \/ TunerListen /\ UNCHANGED <<alertVars, comparatorVars, sourceVars, routerVars>>
    \/ TunerExit /\ UNCHANGED <<alertVars, comparatorVars, sourceVars, routerVars>>
    \/ MainSpawned /\ UNCHANGED <<alertVars, comparatorVars, sourceVars, routerVars>>
    \/ Connect /\ UNCHANGED <<alertVars, comparatorVars, sourceVars, routerVars>>
    \/ ServerListen /\ UNCHANGED <<alertVars, comparatorVars, sourceVars, routerVars>>
    \/ \E program_added \in BOOLEAN :
          SanityCheck(program_added) /\ UNCHANGED <<alertVars, comparatorVars, sourceVars, routerVars>>
    \/ StartLoops /\ UNCHANGED <<alertVars, comparatorVars, sourceVars, routerVars>>

SpecStartup == Init /\ [][NextStartup]_vars

----------------------------------------------------------------------------
(* Properties of the comparator.                                            *)

(* Every ComparisonResult in the vector being built or published.           *)
Emitted ==
    {new_results[i] : i \in 1..Len(new_results)} \cup {results[i] : i \in 1..Len(results)}

(* C11: in every emitted ComparisonResult, is_error of a within-channel     *)
(* result holds exactly when similarity_percent < match_threshold, and      *)
(* is_error of a cross-channel result exactly when similarity_percent >     *)
(* divergence_threshold.                                                    *)
C11_ErrorIffThreshold ==
    \A r \in Emitted :
        IF r.is_within_channel
        THEN r.is_error <=> r.similarity_percent < match_threshold
        ELSE r.is_error <=> r.similarity_percent > divergence_threshold

(* A published vector with a within-channel and a cross-channel result      *)
(* right at their thresholds, neither an error.                             *)
C11_Witness ==
    /\ \E i \in 1..Len(results) :
          /\ results[i].is_within_channel
          /\ results[i].similarity_percent = match_threshold
          /\ ~results[i].is_error
    /\ \E i \in 1..Len(results) :
          /\ ~results[i].is_within_channel
          /\ results[i].similarity_percent = divergence_threshold
          /\ ~results[i].is_error

(* C12: every emitted ComparisonResult has stream1 <= stream2; a            *)
(* within-channel result carries the offset of stream2 against stream1, a   *)
(* cross-channel result none.                                               *)
C12_OrderedPair ==
    \A r \in Emitted :
        /\ ~Less(r.stream2, r.stream1)
        /\ IF r.is_within_channel
           THEN r.offset_seconds = <<match_of(r.stream1, r.stream2, heard).offset>>
           ELSE r.offset_seconds = << >>

(* A within-channel result for two streams listed in the channel in the     *)
(* other order, and a cross-channel result whose names the loop had in the  *)
(* other order.                                                             *)
C12_Witness ==
    /\ \E i \in 1..Len(results) :
          /\ results[i].is_within_channel
          /\ ListedBefore(results[i].stream2, results[i].stream1)
          /\ results[i].offset_seconds = <<-(heard[{results[i].stream1, results[i].stream2}].offset)>>
    /\ \E i \in 1..Len(results) :
          /\ ~results[i].is_within_channel
          /\ <<results[i].stream2, results[i].stream1>> \in CrossPairs

(* C13: a pair for which a snapshot shorter than min_buffer_size was read   *)
(* in a cycle has no ComparisonResult in that cycle's vector, and its alert *)
(* is as it was when the cycle began.                                       *)
C13_ShortPairSilent ==
    /\ \A r \in Emitted : alert_id_of(r) \notin short
    /\ \A id \in short :
          /\ id \in DOMAIN alerts <=> id \in DOMAIN before
          /\ id \in DOMAIN alerts => alerts[id] = before[id]

(* A cycle has published results for other pairs while the failing alert    *)
(* of a pair with a short snapshot stayed as it was.                        *)
C13_Witness ==
    /\ cycle = 1
    /\ results # << >>
    /\ \E id \in short : id \in DOMAIN alerts /\ is_failing(alerts[id])
    /\ \E id \in DOMAIN alerts : ~is_failing(alerts[id])

(* The complete vector of the n-th cycle; before the first, the empty one.  *)
CycleVector(n) == IF n = 0 THEN << >> ELSE complete[n]

(* C14: the published vector is at every instant the complete vector of the *)
(* last cycle that finished, so what a reader cloned is the complete vector *)
(* of the cycle that had last finished when it read: the previous cycle's   *)
(* while a cycle is under way, the new one's once it is published.          *)
C14_AtomicReplace ==
    /\ results = CycleVector(cycle)
    /\ snapshot = CycleVector(read_at)

(* A reader cloned the first cycle's vector while the second cycle had      *)
(* already built a different one.                                           *)
C14_Witness ==
    /\ cpc = "publish"
    /\ cycle = 1
    /\ read_at = 1
    /\ snapshot # << >>
    /\ new_results # << >>
    /\ new_results # snapshot

----------------------------------------------------------------------------
(* Properties *)

IsNotice(e, id) == e.id = id /\ e.category \in {"Warning", "Reminder"}

(* The time of the last Warning or Reminder handed to the transport for id. *)
LastNotified(id) ==
    LET I == {i \in 1..Len(hist) : IsNotice(hist[i], id)}
    IN  IF I = {} THEN NoTime ELSE hist[CHOOSE i \in I : \A j \in I : j <= i].at

(* The states of the table of section 4.6 that apply to an alert at time t. *)
Table(a, t) ==
    {s \in AlertStates :
        \/ s = "NewFailing" /\ a.failing_since # NoTime /\ a.last_sent_update = NoTime
        \/ s = "FailingReminderNeeded" /\ a.failing_since # NoTime
              /\ a.last_sent_update # NoTime /\ t - a.last_sent_update >= ReminderInterval
        \/ s = "FailingAlertSent" /\ a.failing_since # NoTime
              /\ a.last_sent_update # NoTime /\ t - a.last_sent_update < ReminderInterval
        \/ s = "NewPassing" /\ a.failing_since = NoTime /\ a.last_sent_update # NoTime
        \/ s = "Passing" /\ a.failing_since = NoTime /\ a.last_sent_update = NoTime}

(* C1: at every instant, for every alert of the map, exactly one state of   *)
(* the table applies to (failing_since, last_sent_update, now,             *)
(* reminder_interval) and it is the state alert_state computes.             *)
C1_StateIsTable ==
    \A id \in DOMAIN alerts : Table(alerts[id], now) = {alert_state(alerts[id], now)}

(* A failing alert exactly reminder_interval after its last stamp.          *)
C1_Witness ==
    \E id \in DOMAIN alerts :
        /\ alerts[id].failing_since # NoTime
        /\ alerts[id].last_sent_update # NoTime
        /\ now - alerts[id].last_sent_update = ReminderInterval
        /\ alert_state(alerts[id], now) = "FailingReminderNeeded"

LogOf(id) ==
    SelectSeq(SubSeq(hist, episode[id].mark + 1, Len(hist)), LAMBDA e : e.id = id)

(* Their categories, in order.                                              *)
CatsOf(id) == [i \in 1..Len(LogOf(id)) |-> LogOf(id)[i].category]

(* The times of those of one category.                                      *)
TimesOf(id, category) ==
    {LogOf(id)[i].at : i \in {j \in 1..Len(LogOf(id)) : LogOf(id)[j].category = category}}

(* The time of the first Warning for the failure of id.                     *)
WarnedAt(id) ==
    LET T == TimesOf(id, "Warning")
    IN  IF T = {} THEN NoTime ELSE CHOOSE t \in T : \A u \in T : t <= u

(* The failure of id has been reported and has ended, and the tick that     *)
(* follows its recovery is done.                                            *)
Finished(id) ==
    /\ id \in DOMAIN alerts
    /\ ~is_failing(alerts[id])
    /\ WarnedAt(id) # NoTime
    /\ episode[id].recovered_at # NoTime
    /\ wake > episode[id].recovered_in
    /\ pc = "sleep"

IdsOf(msg) == {msg.issues[k].id : k \in 1..Len(msg.issues)}

(* The delivery pass: process_aggregated_alerts from lock to last send.     *)
DeliveryPass == pc = "aggregate" /\ pc' = "sleep"

(* An unreported failure at least grace_period old.                         *)
Due(id) ==
    /\ alerts[id].pending_aggregation = "None"
    /\ alerts[id].failing_since # NoTime
    /\ alerts[id].last_sent_update = NoTime
    /\ now - alerts[id].failing_since >= GracePeriod

(* The time of the last Warning for id.                                     *)
LastWarned(id) ==
    LET T == TimesOf(id, "Warning")
    IN  IF T = {} THEN NoTime ELSE CHOOSE t \in T : \A u \in T : u <= t

(* Both alerts fail, and both failures have been reported.                  *)
BothReported(a, b) ==
    /\ a # b
    /\ is_failing(alerts[a]) /\ alerts[a].last_sent_update # NoTime
    /\ is_failing(alerts[b]) /\ alerts[b].last_sent_update # NoTime

Bucket(category) ==
    {id \in DOMAIN alerts :
        CASE category = "Warning" -> alerts[id].pending_aggregation = "NewFailure" \/ Due(id)
          [] category = "Success" -> alerts[id].pending_aggregation = "Cleared"
          [] category = "Reminder" -> alerts[id].pending_aggregation = "Reminder"}

View(a, t) ==
    [failing_since |-> a.failing_since,
     last_sent_update |-> a.last_sent_update,
     pending_aggregation |-> a.pending_aggregation,
     state |-> alert_state(a, t)]

(* The instants a second call can be made at, no tick in between.           *)
Soon == {now, now + LoopPeriod}

(* C7: from any reachable state, for any alert id, a second                 *)
(* update_alert(id, false, _) right after a first leaves failing_since,     *)
(* last_sent_update, the pending mark and the derived state of the alert as *)
(* the first call left them.                                                *)
C7_PassingIdempotent ==
    \A id \in AlertIds, m1, m2 \in Messages, t2 \in Soon :
        LET once == update_alert(alerts, id, FALSE, m1, now)
            twice == update_alert(once, id, FALSE, m2, t2)
        IN  /\ DOMAIN twice = DOMAIN once
            /\ View(twice[id], t2) = View(once[id], now)
            /\ \A other \in DOMAIN once \ {id} : twice[other] = alerts[other]

(* A reported failure has passed and waits for its Success.                 *)
C7_Witness ==
    \E id \in DOMAIN alerts :
        /\ ~is_failing(alerts[id])
        /\ alerts[id].pending_aggregation = "Cleared"
        /\ \E i \in 1..Len(hist) : hist[i].id = id /\ hist[i].category = "Warning"

(* C8: from any reachable state, for any alert id, update_alert(id, true,   *)
(* m1) followed by update_alert(id, true, m2) leaves failing_since at the   *)
(* value the first error stamped, last_sent_update and the pending mark as  *)
(* the first call left them, and the message m2; no other alert changes.    *)
C8_FailingSincePreserved ==
    \A id \in AlertIds, m1, m2 \in Messages, t2 \in Soon :
        LET once == update_alert(alerts, id, TRUE, m1, now)
            twice == update_alert(once, id, TRUE, m2, t2)
            fresh == id \notin DOMAIN alerts \/ ~is_failing(alerts[id])
        IN  /\ once[id].failing_since # NoTime
            /\ fresh => once[id].failing_since = now
            /\ ~fresh => once[id].failing_since = alerts[id].failing_since
            /\ twice[id].failing_since = once[id].failing_since
            /\ twice[id].last_sent_update = once[id].last_sent_update
            /\ twice[id].pending_aggregation = once[id].pending_aggregation
            /\ twice[id].message = m2
            /\ DOMAIN twice = DOMAIN once
            /\ \A other \in DOMAIN once \ {id} : twice[other] = alerts[other]

(* A failure reported earlier is marked for a reminder that is not yet sent.*)
C8_Witness ==
    \E id \in DOMAIN alerts :
        /\ is_failing(alerts[id])
        /\ alerts[id].failing_since < now
        /\ alerts[id].pending_aggregation = "Reminder"
        /\ alerts[id].last_sent_update = now

(* C9: only the delivery pass of the alert loop hands messages to the       *)
(* transport; no step of update_alert, of process_alerts or of the sleep    *)
(* changes what has been sent.                                              *)
C9_OnlyLoopSends ==
    [][(sent' # sent \/ hist' # hist) => DeliveryPass]_vars

(* update_alert has recorded a failure older than the grace period and      *)
(* nothing has been sent yet.                                               *)
C9_Witness ==
    /\ sent = << >>
    /\ hist = << >>
    /\ pc = "sleep"
    /\ \E id \in DOMAIN alerts : Due(id)

(* C10 as claimed: when the send of an aggregated message fails, the alerts *)
(* it lists keep the pending marks they had before the delivery pass.       *)
C10_PendingKept ==
    [][DeliveryPass =>
          \A i \in 1..Len(sent') :
              ~sent'[i].ok =>
                  \A id \in IdsOf(sent'[i]) :
                      alerts[id].pending_aggregation # "None"
                      => alerts'[id].pending_aggregation = alerts[id].pending_aggregation]_vars

----------------------------------------------------------------------------
(* Properties of the stream.                                                *)

(* The last min(c, n) items of a fingerprint of n items, oldest first. *)
MostRecent(c, n) ==
    LET m == IF n < c THEN n ELSE c
    IN  [i \in 1 .. m |-> n - m + i]

(* C15: whatever get_fingerprint can return has at most record_size items  *)
(* and is the tail of the fingerprint as it was at some update; once the   *)
(* thread has stored the fingerprint of n items, it is the last            *)
(* min(record_size, n) of them, in order, the newest last.                  *)
C15_RollingBuffer ==
    /\ Len(output) <= record_size
    /\ \E n \in 0 .. fingerprinter : output = MostRecent(record_size, n)
    /\ apc # "store" => output = MostRecent(record_size, fingerprinter)

(* A fingerprint longer than the buffer has been stored and trimmed. *)
C15_Witness ==
    /\ apc = "recv"
    /\ fingerprinter > record_size
    /\ Len(output) = record_size
    /\ output[Len(output)] = fingerprinter

(* C16: while no chunk has been sent on the stream's bus, audio_health is  *)
(* NoData.                                                                  *)
C16_SilentIsNoData == bus = << >> => audio_health = "NoData"

(* A child that wrote nothing has exited and been replaced, and the        *)
(* thread still waits for its first chunk.                                  *)
C16_Witness ==
    /\ bus = << >>
    /\ spawned > 1
    /\ child[1].reader = "done"
    /\ apc = "recv"
    /\ audio_health = "NoData"

(* C17: audio_health is NoData as long as the fingerprinter has returned   *)
(* no item, Running once it has, and Dead only when recv reports the bus   *)
(* closed.                                                                  *)
C17_HealthOrder ==
    /\ audio_health = "Running" => fingerprinter > 0
    /\ audio_health = "NoData" => fingerprinter = 0
    /\ audio_health = "Dead" => recv("audio").kind = "Closed"

(* C18: a consumer that has received Lagged goes on receiving: its task    *)
(* has not ended, audio_health is not Dead, and no alert was raised.        *)
C18_OverflowSurvived ==
    /\ "audio" \in gap => apc # "done" /\ audio_health # "Dead"
    /\ "volume" \in gap => vpc # "done"
    /\ gap # {} => DOMAIN alerts = {}

(* Whether s can be had from t by leaving elements out. *)
RECURSIVE IsSubsequence(_, _)
IsSubsequence(s, t) ==
    IF s = << >> THEN TRUE
    ELSE IF t = << >> THEN FALSE
    ELSE IF Head(s) = Head(t) THEN IsSubsequence(Tail(s), Tail(t))
    ELSE IsSubsequence(s, Tail(t))

(* C19: what each subscriber of the bus has received is, in the same       *)
(* order, part of what the source's children wrote.                         *)
C19_OrderPreserved == \A c \in Consumers : IsSubsequence(got[c], written)

(* Child g has exited and no child has been spawned after it. *)
Gone(g) == child[g].state = "exited" /\ spawned = g

(* C20: when a child of the source has exited, its reader ends and marks   *)
(* the source Dead, the supervisor then spawns the next child, health is   *)
(* Running again, and with the next child running restart_count comes      *)
(* back to 0.                                                               *)
C20_Recovery ==
    \A g \in 1 .. MaxSpawns - 1 :
        /\ Gone(g) ~> (child[g].reader = "done")
        /\ Gone(g) ~> (spawned > g)
        /\ Gone(g) ~> (spawned > g /\ cmd_health = "Running")
        /\ Gone(g) ~> (spawned > g /\ (child[g + 1].state = "alive" => restart_count = 0))

(* What Supervise decides where it is enabled. *)
Respawns == ENABLED (Supervise /\ spc' = "respawn")

(* The stream's child, health, last_message and restart_count, and the     *)
(* supervisor's position.                                                   *)
Touches ==
    ENABLED (Supervise /\ <<child, spawned, cmd_health, idle, restart_count, spc>>'
                            # <<child, spawned, cmd_health, idle, restart_count, spc>>)

(* C21, as stated: on a pass of the supervisor the stream is respawned     *)
(* whenever the command's health or the audio's health is Dead, whatever   *)
(* the other health is.                                                     *)
C21_Original ==
    (spc = "sleep" /\ spawned < MaxSpawns
        /\ (cmd_health = "Dead" \/ audio_health = "Dead")) => Respawns

(* C21: on a pass of the supervisor the stream is respawned whenever the   *)
(* command's health is Dead, or the command's health is Running and the    *)
(* audio's health is Dead.                                                  *)
C21_DeadRespawned ==
    (spc = "sleep" /\ spawned < MaxSpawns
        /\ (cmd_health = "Dead" \/ (cmd_health = "Running" /\ audio_health = "Dead")))
    => Respawns

(* A respawn under way for a running command whose audio is dead. *)
C21_Witness ==
    /\ spc = "respawn"
    /\ cmd_health = "Running"
    /\ audio_health = "Dead"

(* C22: a pass of the supervisor over a stream whose command is Stalled,   *)
(* or Running with audio NoData, Degraded or Running, starts no respawn    *)
(* and leaves child, health, last_message and restart_count as they are.   *)
C22_NoRespawn ==
    (spc = "sleep"
        /\ \/ cmd_health = "Stalled"
           \/ cmd_health = "Running" /\ audio_health \in {"NoData", "Degraded", "Running"})
    => ~Touches

(* The supervisor at its pass over a stalled command whose audio is dead,  *)
(* after a respawn.                                                         *)
C22_Witness ==
    /\ spc = "sleep"
    /\ cmd_health = "Stalled"
    /\ audio_health = "Dead"
    /\ spawned > 1

(* A call of respawn() by the supervisor begins, and ends. *)
RespawnCalled == spc = "sleep" /\ spc' = "respawn"

RespawnReturns == spc = "respawn" /\ spc' = "sleep"

(* C24: a call of respawn() adds one to restart_count, before its sleep.   *)
C24_RespawnCounted ==
    [][RespawnCalled => restart_count' = restart_count + 1]_vars

(* C25: restart_count returns to 0 only once the child that the last       *)
(* respawn launched has delivered data.                                     *)
C25_ResetAfterData ==
    [][(restart_count # 0 /\ restart_count' = 0) => child[spawned].read > 0]_vars

(* C26: in every state, Running means that data came within stall_timeout, *)
(* and Stalled that it did not.                                             *)
C26_HealthMatchesClock ==
    /\ cmd_health = "Running" => idle <= stall_timeout
    /\ cmd_health = "Stalled" => idle > stall_timeout

(* C30: once the reader has set Dead, no write of the watchdog replaces    *)
(* it; Dead ends with respawn() only.                                       *)
C30_DeadKept ==
    [][(cmd_health = "Dead" /\ cmd_health' # "Dead") => RespawnReturns]_vars

(* C23: whatever the threshold, a stream whose last measured max_volume   *)
(* is below it has its silence alert failing at the alert manager.          *)
C23_SilenceAlerted ==
    \A threshold \in Volumes :
        ("HD1-Tower" \in DOMAIN volume_metrics /\ volume_metrics["HD1-Tower"] < threshold)
        => /\ "HD1-Tower_silence" \in DOMAIN alerts
           /\ is_failing(alerts["HD1-Tower_silence"])

C28_Original == attempts <= 20

(* C28: connect tries the port at most 21 times, once and after each of    *)
(* 20 retries; when it has failed, main() has returned and no NRSC stream  *)
(* was added.                                                               *)
C28_ConnectBudget ==
    /\ attempts <= connect_max_retries + 1
    /\ connect_result = "Err" =>
           /\ attempts = connect_max_retries + 1
           /\ mpc = "returned"
           /\ \A k \in 1..Len(added) : added[k].type # "NRSC"

(* connect has failed on a port that never accepted, and main() returned.  *)
C28_Witness ==
    /\ connect_result = "Err"
    /\ attempts = 21
    /\ mpc = "returned"
    /\ \E k \in 1..Len(config.streams) : config.streams[k].type = "NRSC"

(* A configuration with a stream of type FM, or an NRSC stream whose tuner *)
(* is not defined.                                                          *)
Invalid(c) ==
    \E k \in 1..Len(c.streams) :
        \/ c.streams[k].type = "FM"
        \/ c.streams[k].type = "NRSC" /\ (c.sdrs = "None" \/ c.streams[k].host # "sdr0")

(* C29: with an invalid configuration main() starts none of the            *)
(* supervisor, the comparator and the volume detection loop.                *)
C29_InvalidIsFatal == Invalid(config) => started = {}

(* C35: an alert that a delivery pass puts into a Success message is not   *)
(* failing when the pass sends it.                                          *)
C35_SuccessWhenPassing ==
    [][DeliveryPass =>
          \A k \in 1..Len(sent') :
              sent'[k].category = "Success" =>
                  \A id \in IdsOf(sent'[k]) : ~is_failing(alerts'[id])]_vars

(* The alert loop over a long time, with one alert whose condition changes *)
(* in the first ticks and again from the time a reminder can be due.        *)
MayChange == now <= MaxOnset \/ now >= ReminderInterval

NextPairs ==
    \/ \E is_error \in BOOLEAN :
          MayChange /\ UpdateAlert(LongId, is_error, "m1") /\ UNCHANGED <<hist, episode>>
          /\ UNCHANGED <<comparatorVars, sourceVars, routerVars, startVars>>
    \/ ProcessAlerts /\ UNCHANGED <<hist, episode>> /\ UNCHANGED <<comparatorVars, sourceVars, routerVars, startVars>>
    \/ ProcessAggregatedAlerts(TRUE) /\ Logged /\ UNCHANGED episode /\ UNCHANGED <<comparatorVars, sourceVars, routerVars, startVars>>
    \/ AdvanceTime(MaxTimePairs) /\ UNCHANGED <<hist, episode>> /\ UNCHANGED <<comparatorVars, sourceVars, routerVars, startVars>>

SpecPairs == Init /\ [][NextPairs]_vars

(* The categories of all the notices handed to the transport for id so     *)
(* far, in order.                                                           *)
Notices(id) ==
    LET log == SelectSeq(hist, LAMBDA e : e.id = id)
    IN  [i \in 1..Len(log) |-> log[i].category]

(* The notices of an alert pair up: before each Success and each Reminder  *)
(* there is a Warning with no Success in between.                           *)
Paired(log) ==
    \A i \in 1..Len(log) :
        log[i] \in {"Success", "Reminder"} =>
            \E j \in 1..(i - 1) :
                /\ log[j] = "Warning"
                /\ \A k \in (j + 1)..(i - 1) : log[k] # "Success"

(* C39: at every point, each Success handed to the transport for an id is  *)
(* preceded by a Warning for it with no other Success in between, and each *)
(* Reminder by a Warning of the same failure.                               *)
C39_NoticesPaired == \A id \in AlertIds : Paired(Notices(id))

(* An alert was warned of, reminded of and cleared, and then warned of and *)
(* cleared again.                                                           *)
C39_Witness ==
    Notices(LongId) = <<"Warning", "Reminder", "Success", "Warning", "Success">>

(* C38: whatever reminder interval the manager was constructed with, an    *)
(* alert is in FailingReminderNeeded exactly when it is failing and at      *)
(* least that interval has passed since its last sent update.               *)
C38_CadenceAsConstructed ==
    \A m \in Intervals : \A id \in DOMAIN alerts :
        LET manager == AlertManager_new(m, GracePeriod)
            a == alerts[id]
        IN  alert_state(a, now) = "FailingReminderNeeded"
                <=> /\ is_failing(a)
                    /\ a.last_sent_update # NoTime
                    /\ now - a.last_sent_update >= minutes(manager.reminder_interval_minutes)

(* C37: no alert id is computed for two different conditions, whether two  *)
(* stream pairs or a stream pair and a silence probe.                       *)
C37_DistinctIds == \A id \in DOMAIN ids : Cardinality(ids[id]) <= 1

(* A chunk of the child spawned last is on the bus.                         *)
Delivered == \E k \in 1..Len(bus) : bus[k][1] = spawned

(* C36: when audio_health is Dead under the first child, then from the     *)
(* time the source has been respawned and the new child has delivered data *)
(* audio_health eventually leaves Dead, as long as the new child lives.     *)
C36_AudioRevives ==
    []((audio_health = "Dead" /\ spawned = 1)
          => []((spawned > 1 /\ Delivered)
                   => <>(audio_health # "Dead" \/ child[spawned].state # "alive")))

(* C34: while the supervisor is inside respawn() the silence probe can    *)
(* take the lock of the stream map for its pass.                            *)
C34_MapOpen == spc = "respawn" => ENABLED (\E measured \in Volumes : VolumeDetect(measured))

(* C33: at most one child of the source runs, whoever respawned it.       *)
C33_OneChild == Cardinality({g \in Children : child[g].state = "alive"}) <= 1

(* C32: the stdin of the child that runs is the one the feeder task       *)
(* writes to, before and after every respawn.                               *)
C32_StdinFed == feeder = spawned

(* C31: a source that is Stalled with its child still running and its     *)
(* stdout open does not stay so for ever: its health leaves Stalled.        *)
C31_StalledEnds ==
    (cmd_health = "Stalled" /\ child[spawned].state = "alive")
        ~> (cmd_health # "Stalled" \/ child[spawned].state # "alive")

====
